---------------------------- MODULE Spec2Model ----------------------------
(***************************************************************************)
(* A model of the osc-validation toolkit: channel specifications, the OSI *)
(* trace readers and writers (single- and multi-channel), the operations  *)
(* that stream one channel into another (convert, gt2sv, crop_trace,      *)
(* ESMini.run) and the download-backed data providers.                    *)
(*                                                                         *)
(* Python objects that are shared by reference (the metadata dict of a     *)
(* specification, the specification a caller hands in) live in heaps      *)
(* (dicts, cs); every function of the code is an operator from a world    *)
(* (file system, dict heap, handle log) to a result record                *)
(*   [w |-> world', exc |-> exception or NoExc, ...].                      *)
(***************************************************************************)
EXTENDS Integers, Sequences, FiniteSets, TLC

VARIABLES
    fs,        \* trace subsystem: file system, path -> file
    dicts,     \* heap of Python dict objects, id -> dict
    cs,        \* heap of the caller's OSIChannelSpecification objects
    opened,    \* the handles the last operation opened, with their close() counts
    log,       \* the operations performed so far: arguments, exception, returned value
    mw,        \* the OSITraceWriterMulti object driven call by call
    wlast,     \* the last call on mw: its arguments and the exception it raised
    accepted,  \* ghost: per topic of mw, the version triples of accepted writes
    nops,      \* number of operations performed so far
    nwrites,   \* number of write() calls made on mw
    disk,      \* provider subsystem: the provider's part of the file system
    prov,      \* the data provider object
    plast      \* the provider's last call and its outcome

vars == <<fs, dicts, cs, opened, log, mw, wlast, accepted, nops, nwrites, disk, prov, plast>>
traceVars == <<fs, dicts, cs, opened, log>>
writerVars == <<mw, wlast, accepted, nwrites>>
provVars == <<disk, prov, plast>>

\* ------------------------------------------------------------------ bounds
MaxOps == 2        \* operations per run of the trace subsystem
MaxChannels == 2   \* add_osi_channel() calls per run of the multi-channel writer
MaxWrites == 2     \* write() calls per run of the multi-channel writer
MaxCalls == 3      \* provider calls per run

\* ------------------------------------------------------------- exceptions
NoExc == [type |-> "none", msg |-> ""]
Raise(t, m) == [type |-> t, msg |-> m]

\* ------------------------------------------------------------------- paths
\* A file name is a sequence of tokens; a token that starts with a dot is an
\* extension token.  pathlib's suffix is the last extension token, its stem
\* everything before it.
ExtTokens == {".osi", ".xz", ".lzma", ".mcap", ".txt"}

Suffix(p) == IF Len(p) > 1 /\ p[Len(p)] \in ExtTokens THEN p[Len(p)] ELSE ""

Stem(p) == IF Suffix(p) = "" THEN p ELSE SubSeq(p, 1, Len(p) - 1)

PathWithSuffix(p, ext) == Stem(p) \o <<ext>>

\* --------------------------------------------------- channel specification
SINGLE_CHANNEL == "SINGLE_CHANNEL"
MULTI_CHANNEL == "MULTI_CHANNEL"
UnsupportedFormat == "KeyError"

NoneType == "None"            \* message_type is None
NoTopic == <<"<None>">>       \* topic is None
NoDict == 0                   \* metadata is None

\* FormatMapper.ext_to_format / get_format
get_format(ext) ==
    CASE ext \in {".osi", ".xz", ".lzma"} -> SINGLE_CHANNEL
      [] ext = ".mcap" -> MULTI_CHANNEL
      [] OTHER -> UnsupportedFormat

\* FormatMapper.get_extension: the first extension registered for a format
get_extension(fmt) == IF fmt = SINGLE_CHANNEL THEN ".osi" ELSE ".mcap"

trace_file_format(s) == get_format(Suffix(s.path))

MkSpec(p, mt, t, md) == [path |-> p, message_type |-> mt, topic |-> t, metadata |-> md]

with_name(s, new_name) == MkSpec(new_name, s.message_type, s.topic, s.metadata)

\* a builder that appends the suffix to the whole name, extension included
with_name_suffix_Appended(s, sfx) ==
    MkSpec(s.path \o <<sfx>>, s.message_type, s.topic, s.metadata)

with_name_suffix(s, sfx) ==
    MkSpec(Stem(s.path) \o <<sfx>>
             \o (IF Suffix(s.path) = "" THEN <<>> ELSE <<Suffix(s.path)>>),
           s.message_type, s.topic, s.metadata)

with_trace_file_format(s, fmt) ==
    MkSpec(PathWithSuffix(s.path, get_extension(fmt)), s.message_type, s.topic, s.metadata)

with_message_type(s, mt) == MkSpec(s.path, mt, s.topic, s.metadata)

with_topic(s, t) == MkSpec(s.path, s.message_type, t, s.metadata)

NoSpec == MkSpec(<<>>, NoneType, NoTopic, NoDict)

\* autofill_topic: the receiver with its topic set to the stem when unset
autofill_topic(s) == IF s.topic = NoTopic THEN with_topic(s, Stem(s.path)) ELSE s

\* a validator that accepts every specification
SpecValidator_AcceptAll(allowed, s) == NoExc

\* Python truthiness of an optional string: None and "" are falsy
FalsyType(mt) == mt \in {NoneType, ""}
FalsyTopic(t) == t \in {NoTopic, <<>>}

\* OSIChannelSpecValidator: allowed_message_types is << >> for None and
\* <<S>> for a list with the members S; require_metadata_keys is the set of
\* the listed keys (None and [] both give no key)
MkValidator(allowed_message_types, require_message_type, require_topic, require_metadata_keys) ==
    [allowed_message_types |-> allowed_message_types,
     require_message_type |-> require_message_type,
     require_topic |-> require_topic,
     require_metadata_keys |-> require_metadata_keys]

\* OSIChannelSpecValidator.__call__(spec) with the metadata dicts d; the
\* result is the exception raised.  `key not in None` is a TypeError.
OSIChannelSpecValidator(v, d, s) ==
    IF /\ v.allowed_message_types # <<>> /\ v.allowed_message_types[1] # {}
       /\ s.message_type \notin v.allowed_message_types[1]
       /\ s.message_type # NoneType
    THEN Raise("InvalidSpecificationError", "message type not allowed")
    ELSE IF v.require_message_type /\ FalsyType(s.message_type)
    THEN Raise("InvalidSpecificationError", "message type required")
    ELSE IF v.require_topic /\ FalsyTopic(s.topic)
    THEN Raise("InvalidSpecificationError", "topic required")
    ELSE IF v.require_metadata_keys = {} THEN NoExc
    ELSE IF s.metadata = NoDict
    THEN Raise("TypeError", "argument of type NoneType is not iterable")
    ELSE IF \E key \in v.require_metadata_keys : key \notin DOMAIN d[s.metadata]
    THEN Raise("InvalidSpecificationError", "missing required metadata key")
    ELSE NoExc

\* OSIChannelSpecValidator(allowed_message_types=[...])(s), as the adapters
\* call it; the result is the exception raised
SpecValidator(allowed, s) ==
    OSIChannelSpecValidator(MkValidator(<<allowed>>, FALSE, FALSE, {}), <<>>, s)

\* ------------------------------------------------ trace file name convention
\* <timestamp>_<type>_<osi-version>_<protobuf-version>_<frames>_<custom>.osi,
\* as tokens: words and "_" separators alternate, the extension token is last.
ShapedTimestamps == {"20240101T120000Z", "20241301T120000Z"}   \* match \d{8}T\d{6}Z
ValidTimestamps == {"20240101T120000Z"}                        \* strptime accepts
DigitTokens == {"10", "25"}

\* osi_channel_specification.MESSAGE_TYPE_MAP
TypeAbbrev == [a \in {"sv", "svc", "gt", "hvd", "sd", "tc", "tcu", "tu", "mr", "su"} |->
    CASE a = "sv" -> "SensorView"
      [] a = "svc" -> "SensorViewConfiguration"
      [] a = "gt" -> "GroundTruth"
      [] a = "hvd" -> "HostVehicleData"
      [] a = "sd" -> "SensorData"
      [] a = "tc" -> "TrafficCommand"
      [] a = "tcu" -> "TrafficCommandUpdate"
      [] a = "tu" -> "TrafficUpdate"
      [] a = "mr" -> "MotionRequest"
      [] a = "su" -> "StreamingUpdate"]

\* whether the regular expression of parse_osi_trace_filename matches
FilenamePatternMatches(n) ==
    /\ Len(n) >= 12
    /\ n[1] \in ShapedTimestamps
    /\ n[3] \in DOMAIN TypeAbbrev
    /\ \A i \in {2, 4, 6, 8, 10} : n[i] = "_"
    /\ \A i \in {5, 7} : n[i] # "_"
    /\ n[9] \in DigitTokens
    /\ \A i \in 11..(Len(n) - 1) : n[i] \notin ExtTokens
    /\ n[Len(n)] = ".osi"

\* parse_osi_trace_filename(filename).get("message_type", None)
parse_osi_trace_filename_type(n) ==
    IF FilenamePatternMatches(n) /\ n[1] \in ValidTimestamps
    THEN TypeAbbrev[n[3]]
    ELSE NoneType

\* ---------------------------------------------------------------- messages
\* An OSI message: its type, timestamp (ticks), interface version triple,
\* host vehicle id (-1: unset) and payload.  A SensorView's payload is its
\* global_ground_truth.
CurrentInterfaceVersion == <<3, 7, 0>>
OlderInterfaceVersion == <<3, 6, 0>>
ProtobufRuntimeVersion == "pb-runtime"

\* osi_writer.MESSAGE_TYPE_MAP: the message classes a schema can be built for
WriterMessageTypes == {TypeAbbrev[a] : a \in DOMAIN TypeAbbrev}

MkMsg(t, ts, v, h, p) == [type |-> t, ts |-> ts, ver |-> v, host |-> h, pay |-> p]

NoHost == -1       \* host_vehicle_id is not set in the message

NoMsg == MkMsg(NoneType, 0, <<0, 0, 0>>, NoHost, <<>>)

\* msg.host_vehicle_id.value: reading an unset field gives the default 0
host_vehicle_id_value(msg) == IF msg.host = NoHost THEN 0 ELSE msg.host

\* A MovingObject of a message's payload: id.value, vehicle_classification.type,
\* vehicle_attributes.bbcenter_to_rear (<<x, y, z>>, or <<>> when the message
\* sets no vehicle attributes), base.dimension length and height and
\* base.position x and y.  Lengths are multiples of 10 and heights even, so
\* that 0.3 * length and 0.5 * height are integers.
MkObject(id, vtype, rear, length, height, x, y) ==
    [id |-> id, vtype |-> vtype, rear |-> rear, length |-> length, height |-> height,
     x |-> x, y |-> y]

\* mo.vehicle_attributes.bbcenter_to_rear.{x,y,z}: reading unset fields
\* gives the default 0.0
bbcenter_to_rear_value(mo) == IF mo.rear = <<>> THEN <<0, 0, 0>> ELSE mo.rear

\* -------------------------------------------------------------------- dicts
OsiVersionKey == "net.asam.osi.trace.channel.osi_version"
ProtobufVersionKey == "net.asam.osi.trace.channel.protobuf_version"
DescriptionKey == "net.asam.osi.trace.channel.description"

EmptyDict == [k \in {} |-> ""]

DictSet(d, k, v) == [x \in (DOMAIN d) \cup {k} |-> IF x = k THEN v ELSE d[x]]

\* A version string "a.b.c" is the sequence of its dot-separated components;
\* a component that is no integer literal is -1, the empty string is << >>.
FormatVersion(v) == <<v[1], v[2], v[3]>>

\* map(int, s.split(".")) unpacked into three names: fails (ValueError) on
\* a wrong number of components and on a component int() rejects
VersionParses(s) == Len(s) = 3 /\ \A i \in 1..3 : s[i] >= 0

\* ----------------------------------------------------------------- world
\* fs maps each existing path to its file: a single-channel file holds its
\* messages, a multi-channel file its channels (in channel-id order) and
\* whether the container was finished.
MkFile(kind, msgs, chans, fin) ==
    [kind |-> kind, msgs |-> msgs, chans |-> chans, finished |-> fin]

MkChan(t, schema, meta) == [topic |-> t, schema |-> schema, meta |-> meta, msgs |-> <<>>]

SchemaName(mt) == <<"osi3.", mt>>

FsPut(f, p, file) == [x \in (DOMAIN f) \cup {p} |-> IF x = p THEN file ELSE f[x]]

FsRemove(f, p) == [x \in (DOMAIN f) \ {p} |-> f[x]]

MkWorld(f, d, o) == [fs |-> f, dicts |-> d, opened |-> o]

\* opening a reader or writer appends a handle; close() counts on it
OpenHandle(w, kind, p) ==
    [w EXCEPT !.opened = Append(@, [kind |-> kind, path |-> p, closes |-> 0])]

CloseHandle(w, h) == [w EXCEPT !.opened[h].closes = @ + 1]

\* a fresh dict object: the lowest id the heap does not hold
FreshDict(w) == CHOOSE i \in 1..(Cardinality(DOMAIN w.dicts) + 1) : i \notin DOMAIN w.dicts

AllocDict(w, d) ==
    [w EXCEPT !.dicts = [x \in (DOMAIN w.dicts) \cup {FreshDict(w)} |->
                            IF x = FreshDict(w) THEN d ELSE w.dicts[x]]]

\* The element of a one-element set: {e(r) : r \in {f(x)}} computes the
\* result r of a call once before the statements after it use it.
Only(S) == CHOOSE x \in S : TRUE

Result(w, exc) == [w |-> w, exc |-> exc]

\* ------------------------------------------------- multi-channel writer
\* An OSITraceWriterMulti object: active_channels (topic -> channel id),
\* channel_metadata (topic -> dict object), written_message_count and its
\* handle in the world's log.
NoWriter ==
    [kind |-> "none", path |-> <<>>, message_type |-> NoneType,
     active |-> [t \in {} |-> 0], meta |-> [t \in {} |-> 0], count |-> 0, h |-> 0]

\* OSITraceWriterMulti.__init__
MultiInit(w, p, md) ==
    IF Suffix(p) # ".mcap"
    THEN Result(w, Raise("ValueError", "extension must be .mcap")) @@ [wr |-> NoWriter]
    ELSE IF p \in DOMAIN w.fs
    THEN Result(w, Raise("ValueError", "file already exists")) @@ [wr |-> NoWriter]
    ELSE LET w1 == OpenHandle([w EXCEPT !.fs = FsPut(@, p, MkFile("mcap", <<>>, <<>>, FALSE))],
                              "writer", p)
             wr == [NoWriter EXCEPT !.kind = "multi", !.path = p, !.h = Len(w1.opened)]
         IN  IF md = NoDict
             \* validate_file_metadata: None has no keys()
             THEN Result(w1, Raise("AttributeError", "NoneType has no keys")) @@ [wr |-> NoWriter]
             ELSE Result(w1, NoExc) @@ [wr |-> wr]

\* OSITraceWriterMulti.add_osi_channel; s is the specification object handed
\* in, the result's spec is that object afterwards
add_osi_channel(w, wr, s) ==
    LET fail(m) == Result(w, Raise("ValueError", m)) @@ [wr |-> wr, spec |-> s]
    IN
    IF s.path # wr.path THEN fail("channel path does not match")
    ELSE IF s.topic \in DOMAIN wr.active THEN fail("topic already exists")
    ELSE IF s.message_type = NoneType THEN fail("message type is not set")
    ELSE
      LET s1 == autofill_topic(s)
          w1 == IF s1.metadata = NoDict THEN AllocDict(w, EmptyDict) ELSE w
          md == IF s1.metadata = NoDict THEN FreshDict(w) ELSE s1.metadata
      IN
      IF s1.message_type \notin WriterMessageTypes
      THEN Result(w1, Raise("KeyError", "unknown message type")) @@ [wr |-> wr, spec |-> s1]
      ELSE
        LET id == Len(w1.fs[wr.path].chans) + 1
            w2 == [w1 EXCEPT !.fs[wr.path].chans =
                       Append(@, MkChan(s1.topic, SchemaName(s1.message_type), w1.dicts[md]))]
            wr2 == [wr EXCEPT
                      !.active = [t \in (DOMAIN wr.active) \cup {s1.topic} |->
                                     IF t = s1.topic THEN id ELSE wr.active[t]],
                      !.meta = [t \in (DOMAIN wr.meta) \cup {s1.topic} |->
                                     IF t = s1.topic THEN md ELSE wr.meta[t]]]
        IN  Result(w2, NoExc) @@ [wr |-> wr2, spec |-> s1]

\* a version check that compares the major version only
MultiWriteVersionCheck_MajorOnly(channel_osi_version, message) ==
    IF ~VersionParses(channel_osi_version)
    THEN Raise("ValueError", "malformed channel OSI version")
    ELSE IF channel_osi_version[1] # message.ver[1]
    THEN Raise("ValueError", "message version does not match channel OSI version")
    ELSE NoExc

\* the version check of OSITraceWriterMulti.write: the exception it raises
MultiWriteVersionCheck(channel_osi_version, message) ==
    IF ~VersionParses(channel_osi_version)
    THEN Raise("ValueError", "malformed channel OSI version")
    ELSE IF channel_osi_version # FormatVersion(message.ver)
    THEN Raise("ValueError", "message version does not match channel OSI version")
    ELSE NoExc

\* OSITraceWriterMulti.write
MultiWrite(w, wr, message, topic) ==
    IF topic \notin DOMAIN wr.active
    THEN Result(w, Raise("ValueError", "topic not found in writing channels")) @@ [wr |-> wr]
    ELSE
      LET md == wr.meta[topic]
          d == w.dicts[md]
          pinned == OsiVersionKey \in DOMAIN d /\ d[OsiVersionKey] # <<>>
          chk == IF pinned THEN MultiWriteVersionCheck(d[OsiVersionKey], message) ELSE NoExc
      IN
      IF chk # NoExc THEN Result(w, chk) @@ [wr |-> wr]
      ELSE
        LET d1 == IF pinned THEN d ELSE DictSet(d, OsiVersionKey, FormatVersion(message.ver))
            d2 == DictSet(d1, ProtobufVersionKey, ProtobufRuntimeVersion)
            w1 == [w EXCEPT !.dicts[md] = d2,
                            !.fs[wr.path].chans[wr.active[topic]].msgs = Append(@, message)]
        IN  Result(w1, NoExc) @@ [wr |-> [wr EXCEPT !.count = @ + 1]]

\* OSITraceWriterMulti.close
MultiClose(w, wr) ==
    CloseHandle([w EXCEPT !.fs[wr.path].finished = TRUE], wr.h)

\* ------------------------------------------------ single-channel writer
\* OSITraceWriterSingle.__init__ (compress: the compress argument)
SingleInit(w, p, mt, compress) ==
    IF compress /\ Suffix(p) # ".osi.xz"
    THEN Result(w, Raise("ValueError", "extension must be .osi.xz")) @@ [wr |-> NoWriter]
    ELSE IF ~compress /\ Suffix(p) # ".osi"
    THEN Result(w, Raise("ValueError", "extension must be .osi")) @@ [wr |-> NoWriter]
    ELSE LET w1 == OpenHandle([w EXCEPT !.fs = FsPut(@, p, MkFile("osi", <<>>, <<>>, TRUE))],
                              "writer", p)
         IN  Result(w1, NoExc)
               @@ [wr |-> [NoWriter EXCEPT !.kind = "single", !.path = p,
                                           !.message_type = mt, !.h = Len(w1.opened)]]

\* OSITraceWriterSingle.write
SingleWrite(w, wr, message) ==
    Result([w EXCEPT !.fs[wr.path].msgs = Append(@, message)], NoExc)
      @@ [wr |-> [wr EXCEPT !.count = @ + 1]]

\* OSITraceWriterSingle.close
SingleClose(w, wr) == CloseHandle(w, wr.h)

\* --------------------------------------------------------- channel writer
\* An OSIChannelWriter: its source (the trace writer), topic and message type.
MkChannelWriter(src, t, mt) == [source |-> src, topic |-> t, message_type |-> mt]

NoChannelWriter == MkChannelWriter(NoWriter, NoTopic, NoneType)

\* OSIChannelWriter.from_osi_channel_specification; spec is the caller's
\* object afterwards
WriterFromSpec(w, s) ==
    LET fmt == trace_file_format(s) IN
    IF fmt = UnsupportedFormat
    THEN Result(w, Raise("KeyError", "unknown extension")) @@ [cw |-> NoChannelWriter, spec |-> s]
    ELSE IF fmt = MULTI_CHANNEL
    THEN LET r1 == MultiInit(w, s.path, s.metadata) IN
         IF r1.exc # NoExc
         THEN Result(r1.w, r1.exc) @@ [cw |-> NoChannelWriter, spec |-> s]
         ELSE LET r2 == add_osi_channel(r1.w, r1.wr, s) IN
              IF r2.exc # NoExc
              THEN Result(r2.w, r2.exc) @@ [cw |-> NoChannelWriter, spec |-> r2.spec]
              ELSE Result(r2.w, NoExc)
                     @@ [cw |-> MkChannelWriter(r2.wr, r2.spec.topic, r2.spec.message_type),
                         spec |-> r2.spec]
    ELSE LET r1 == SingleInit(w, s.path, s.message_type, FALSE) IN
         IF r1.exc # NoExc
         THEN Result(r1.w, r1.exc) @@ [cw |-> NoChannelWriter, spec |-> s]
         ELSE Result(r1.w, NoExc)
                @@ [cw |-> MkChannelWriter(r1.wr, s.topic, s.message_type), spec |-> s]

\* OSIChannelWriter.write
ChannelWrite(w, cw, message) ==
    LET r == IF cw.source.kind = "multi"
             THEN MultiWrite(w, cw.source, message, cw.topic)
             ELSE SingleWrite(w, cw.source, message)
    IN  Result(r.w, r.exc) @@ [cw |-> [cw EXCEPT !.source = r.wr]]

\* for msg in msgs: writer.write(msg), up to the first exception
RECURSIVE WriteAll(_, _, _)
WriteAll(w, cw, msgs) ==
    IF msgs = <<>> THEN Result(w, NoExc) @@ [cw |-> cw]
    ELSE Only({IF r.exc # NoExc THEN r ELSE WriteAll(r.w, r.cw, Tail(msgs)) :
                r \in {ChannelWrite(w, cw, Head(msgs))}})

\* OSIChannelWriter.close
ChannelWriterClose(w, cw) ==
    IF cw.source.kind = "multi" THEN MultiClose(w, cw.source) ELSE SingleClose(w, cw.source)

\* whether the trace writer has a channel_metadata attribute
HasChannelMetadata(src) == src.kind = "multi"

\* OSIChannelWriter.get_channel_specification
get_channel_specification(w, cw) ==
    IF ~HasChannelMetadata(cw.source)
    THEN Result(w, Raise("AttributeError", "no attribute channel_metadata")) @@ [spec |-> NoSpec]
    ELSE IF cw.topic \in DOMAIN cw.source.meta
    THEN Result(w, NoExc)
           @@ [spec |-> MkSpec(cw.source.path, cw.message_type, cw.topic, cw.source.meta[cw.topic])]
    ELSE Result(AllocDict(w, EmptyDict), NoExc)
           @@ [spec |-> MkSpec(cw.source.path, cw.message_type, cw.topic, FreshDict(w))]

\* ---------------------------------------------------------------- readers
\* A trace reader bound to a topic (OSIChannelReader over OSITraceAdapter or
\* OSITraceReaderMulti).
MkReader(kind, p, t, mt, h) ==
    [kind |-> kind, path |-> p, topic |-> t, message_type |-> mt, h |-> h]

NoReader == MkReader("none", <<>>, NoTopic, NoneType, 0)

\* OSITraceReaderMulti.get_available_topics: the topics in channel-id order
get_available_topics(file) == [i \in 1..Len(file.chans) |-> file.chans[i].topic]

InSeq(x, sq) == \E i \in 1..Len(sq) : sq[i] = x

FirstChannel(file, t) ==
    file.chans[CHOOSE i \in 1..Len(file.chans) :
                  /\ file.chans[i].topic = t
                  /\ \A j \in 1..(i - 1) : file.chans[j].topic # t]

\* OSITraceReaderMulti.get_message_type: [exc, mt]
MultiMessageType(file, t) ==
    IF ~InSeq(t, get_available_topics(file)) THEN [exc |-> NoExc, mt |-> NoneType]
    ELSE LET schema == FirstChannel(file, t).schema IN
         IF schema[1] = "osi3." THEN [exc |-> NoExc, mt |-> schema[2]]
         ELSE [exc |-> Raise("ValueError", "schema name does not start with osi3."),
               mt |-> NoneType]

\* a topic choice that takes the last available topic when none is requested
BoundTopic_LastAvailable(requested, topics) ==
    IF requested = NoTopic THEN topics[Len(topics)] ELSE requested

\* the topic from_osi_channel_specification binds the reader to: the first
\* available one when none is requested
BoundTopic(requested, topics) ==
    IF requested = NoTopic THEN topics[1] ELSE requested

\* OSIChannelReader.from_osi_channel_specification
ReaderFromSpec(w, s) ==
    LET fail(w1, e) == Result(w1, e) @@ [rd |-> NoReader]
        fmt == trace_file_format(s)
    IN
    IF s.path \notin DOMAIN w.fs
    THEN fail(w, Raise("FileNotFoundError", "OSI trace file does not exist"))
    ELSE IF fmt = UnsupportedFormat THEN fail(w, Raise("KeyError", "unknown extension"))
    ELSE IF fmt = SINGLE_CHANNEL
    THEN IF s.message_type = NoneType
         THEN fail(w, Raise("ValueError", "please specify the message type explicitly"))
         ELSE LET w1 == OpenHandle(w, "reader", s.path) IN
              Result(w1, NoExc)
                @@ [rd |-> MkReader("single", s.path, Stem(s.path), s.message_type,
                                    Len(w1.opened))]
    ELSE
      LET w1 == OpenHandle(w, "reader", s.path)
          file == w.fs[s.path]
          topics == get_available_topics(file)
      IN
      IF ~file.finished THEN fail(w1, Raise("McapError", "container has no summary"))
      ELSE IF s.topic = NoTopic /\ topics = <<>>
      THEN fail(w1, Raise("ValueError", "no topics found"))
      ELSE IF s.topic # NoTopic /\ ~InSeq(s.topic, topics)
      THEN fail(w1, Raise("ValueError", "topic not found; available topics listed"))
      ELSE
        LET topic == BoundTopic(s.topic, topics)
            smt == MultiMessageType(file, topic)
        IN
        IF s.message_type # NoneType /\ smt.exc # NoExc THEN fail(w1, smt.exc)
        ELSE IF s.message_type # NoneType /\ smt.mt # s.message_type
        THEN fail(w1, Raise("ValueError", "channel has another message type than requested"))
        ELSE Result(w1, NoExc)
               @@ [rd |-> MkReader("multi", s.path, topic, NoneType, Len(w1.opened))]

\* stable insertion of a message by log time
RECURSIVE InsertByLogTime(_, _)
InsertByLogTime(sorted, m) ==
    IF sorted = <<>> THEN <<m>>
    ELSE IF sorted[Len(sorted)].ts <= m.ts THEN Append(sorted, m)
    ELSE Append(InsertByLogTime(SubSeq(sorted, 1, Len(sorted) - 1), m), sorted[Len(sorted)])

RECURSIVE ByLogTime(_)
ByLogTime(msgs) ==
    IF msgs = <<>> THEN <<>>
    ELSE InsertByLogTime(ByLogTime(SubSeq(msgs, 1, Len(msgs) - 1)), msgs[Len(msgs)])

RECURSIVE TopicMessages(_, _)
TopicMessages(chans, t) ==
    IF chans = <<>> THEN <<>>
    ELSE (IF Head(chans).topic = t THEN Head(chans).msgs ELSE <<>>)
           \o TopicMessages(Tail(chans), t)

\* get_messages: the messages iterating the reader yields.  The container
\* reader yields the topic's messages by log time (the message timestamp),
\* the single-channel reader in file order.
get_messages(w, rd) ==
    IF rd.kind = "multi"
    THEN ByLogTime(TopicMessages(w.fs[rd.path].chans, rd.topic))
    ELSE w.fs[rd.path].msgs

\* OSIChannelReader.get_message_type: [exc, mt]
get_message_type(w, rd) ==
    IF rd.kind = "multi" THEN MultiMessageType(w.fs[rd.path], rd.topic)
    ELSE [exc |-> NoExc, mt |-> rd.message_type]

\* OSIChannelReader.close
ReaderClose(w, rd) == CloseHandle(w, rd.h)

\* OSIChannelSpecification.try_autodetect_message_type; spec is the receiver
\* afterwards, ok the value returned
try_autodetect_message_type(w, s) ==
    LET done(w1, e, ok, s1) == Result(w1, e) @@ [ok |-> ok, spec |-> s1]
        fmt == trace_file_format(s)
    IN
    IF s.message_type # NoneType THEN done(w, NoExc, TRUE, s)
    ELSE IF fmt = UnsupportedFormat THEN done(w, Raise("KeyError", "unknown extension"), FALSE, s)
    ELSE IF fmt = MULTI_CHANNEL
    THEN LET r == ReaderFromSpec(w, s) IN
         IF r.exc # NoExc THEN done(r.w, r.exc, FALSE, s)
         ELSE LET mt == get_message_type(r.w, r.rd)
                  w1 == ReaderClose(r.w, r.rd)
              IN  IF mt.exc # NoExc THEN done(w1, mt.exc, FALSE, s)
                  ELSE IF mt.mt # NoneType
                  THEN done(w1, NoExc, TRUE, with_message_type(s, mt.mt))
                  ELSE done(w1, NoExc, FALSE, s)
    ELSE LET detected == parse_osi_trace_filename_type(s.path) IN
         IF detected # NoneType THEN done(w, NoExc, TRUE, with_message_type(s, detected))
         ELSE done(w, NoExc, FALSE, s)

\* ------------------------------------------- operations on whole channels
\* Each result: the world afterwards, the exception that propagated, the
\* value returned (ret) and the caller's output specification object (spec).
Outcome(w, exc, ret, s) == Result(w, exc) @@ [ret |-> ret, spec |-> s]

\* for msg in reader: writer.write(msg), then both context managers exit and
\* the function returns writer.get_channel_specification(); rd and r2 are
\* the open reader and the result of constructing the writer
CopyThenClose(rd, r2, msgs) ==
    Only({
      IF r3.exc # NoExc
      THEN Outcome(ReaderClose(ChannelWriterClose(r3.w, r3.cw), rd), r3.exc, NoSpec, r2.spec)
      ELSE Only({Outcome(r5.w, r5.exc, r5.spec, r2.spec) :
                  r5 \in {get_channel_specification(
                            ReaderClose(ChannelWriterClose(r3.w, r3.cw), rd), r3.cw)}})
      : r3 \in {WriteAll(r2.w, r2.cw, msgs)}})

\* osi_format_converter.convert
convert(w, input_channel_spec, output_channel_spec) ==
    Only({
      IF r1.exc # NoExc THEN Outcome(r1.w, r1.exc, NoSpec, output_channel_spec)
      ELSE Only({
        IF r2.exc # NoExc THEN Outcome(ReaderClose(r2.w, r1.rd), r2.exc, NoSpec, r2.spec)
        ELSE CopyThenClose(r1.rd, r2, get_messages(r2.w, r1.rd))
        : r2 \in {WriterFromSpec(r1.w, output_channel_spec)}})
      : r1 \in {ReaderFromSpec(w, input_channel_spec)}})

\* the SensorView message gt2sv wraps a GroundTruth message in
WrapGroundTruth(gt_msg) ==
    MkMsg("SensorView", gt_msg.ts, CurrentInterfaceVersion, 0, gt_msg.pay)

\* esminigt2sv.gt2sv
gt2sv(w, gt_channel_spec, sv_channel_spec) ==
    Only({
      IF r1.exc # NoExc THEN Outcome(r1.w, r1.exc, NoSpec, r1.spec)
      ELSE Only({
        IF r2.exc # NoExc THEN Outcome(r2.w, r2.exc, NoSpec, r1.spec)
        ELSE Only({
          CopyThenClose(r2.rd, [r1 EXCEPT !.w = r2.w],
                        [i \in 1..Len(gts) |-> WrapGroundTruth(gts[i])])
          : gts \in {get_messages(r2.w, r2.rd)}})
        : r2 \in {ReaderFromSpec(r1.w, gt_channel_spec)}})
      : r1 \in {WriterFromSpec(w, sv_channel_spec)}})

NoTime == -1     \* start_time / end_time is None

RECURSIVE SelectWindow(_, _, _)
SelectWindow(msgs, start_time, end_time) ==
    IF msgs = <<>> THEN <<>>
    ELSE (IF /\ (start_time = NoTime \/ Head(msgs).ts >= start_time)
             /\ (end_time = NoTime \/ Head(msgs).ts <= end_time)
          THEN <<Head(msgs)>> ELSE <<>>)
           \o SelectWindow(Tail(msgs), start_time, end_time)

\* utils.crop_trace
crop_trace(w, input_channel_spec, output_channel_spec, start_time, end_time) ==
    Only({
      IF r1.exc # NoExc THEN Outcome(r1.w, r1.exc, NoSpec, output_channel_spec)
      ELSE Only({
        IF r2.exc # NoExc THEN Outcome(r2.w, r2.exc, NoSpec, r2.spec)
        ELSE CopyThenClose(r1.rd, r2,
                           SelectWindow(get_messages(r2.w, r1.rd), start_time, end_time))
        : r2 \in {WriterFromSpec(r1.w, output_channel_spec)}})
      : r1 \in {ReaderFromSpec(w, input_channel_spec)}})

\* OSIChannelSpecification.rename_to: [w, exc, spec], spec the one returned
rename_to(w, s, new_path) ==
    IF s.path \notin DOMAIN w.fs
    THEN Result(w, Raise("FileNotFoundError", "cannot rename")) @@ [spec |-> NoSpec]
    ELSE Result([w EXCEPT !.fs = FsPut(FsRemove(@, s.path), new_path, w.fs[s.path])], NoExc)
           @@ [spec |-> MkSpec(new_path, s.message_type, s.topic, s.metadata)]

\* the specification of the trace ESMini.run asks the tool to produce
esmini_gt_spec(osi_output_spec) ==
    with_message_type(
        with_trace_file_format(with_name_suffix(osi_output_spec, "_esmini_gt"), SINGLE_CHANNEL),
        "GroundTruth")

\* ESMini.run; produced: whether the external process wrote its trace, and
\* gt_trace the messages it wrote
ESMiniRun(w, osi_output_spec, produced, gt_trace) ==
    Only({
      IF v # NoExc THEN Outcome(w, v, NoSpec, osi_output_spec) @@ [started |-> FALSE]
      ELSE Only({
        IF gt_spec.path \notin DOMAIN w1.fs
        THEN Outcome(w1, Raise("RuntimeError", "ESMini trace could not be generated"),
                     NoSpec, osi_output_spec)
        ELSE IF osi_output_spec.message_type \in {"SensorView", NoneType}
        THEN gt2sv(w1, gt_spec, osi_output_spec)
        ELSE IF trace_file_format(osi_output_spec) = UnsupportedFormat
        THEN Outcome(w1, Raise("KeyError", "unknown extension"), NoSpec, osi_output_spec)
        ELSE IF trace_file_format(osi_output_spec) # trace_file_format(gt_spec)
        THEN Only({
          IF r1.exc # NoExc THEN Outcome(r1.w, r1.exc, NoSpec, osi_output_spec)
          ELSE Only({
            IF r2.exc # NoExc THEN Outcome(r2.w, r2.exc, NoSpec, r2.spec)
            ELSE CopyThenClose(r1.rd, r2, get_messages(r2.w, r1.rd))
            : r2 \in {WriterFromSpec(r1.w, osi_output_spec)}})
          : r1 \in {ReaderFromSpec(w1, gt_spec)}})
        ELSE Only({Outcome(r.w, r.exc, r.spec, osi_output_spec) :
                    r \in {rename_to(w1, gt_spec, osi_output_spec.path)}})
        : gt_spec \in {esmini_gt_spec(osi_output_spec)},
          w1 \in {IF produced
                  THEN [w EXCEPT !.fs = FsPut(@, esmini_gt_spec(osi_output_spec).path,
                                              MkFile("osi", gt_trace, <<>>, TRUE))]
                  ELSE w}}) @@ [started |-> TRUE]
      : v \in {SpecValidator({"GroundTruth", "SensorView"}, osi_output_spec)}})

\* ---- tools/gtgen_cli.py: GTGen_Simulator.run ----
gtgen_sv_spec(osi_output_spec) ==
    with_message_type(
        with_trace_file_format(with_name_suffix(osi_output_spec, "_gtgen"), SINGLE_CHANNEL),
        "SensorView")

\* the moving objects of a message renumbered 1, 2, ... in list order
Renumbered(msgs) ==
    [k \in 1..Len(msgs) |->
       [msgs[k] EXCEPT !.pay = [i \in 1..Len(@) |-> [@[i] EXCEPT !.id = i]]]]

\* crop_trace's start_time of 0.3 s; the model's timestamps are whole
\* seconds, so the messages kept are those from second 1 on
CropStart == 1

\* the writer on <stem>_conv is made before the reader on the simulator's
\* trace; both are closed by the with statement, which is only entered
\* when both exist
GTGenAdapt(w, osi_output_spec, sv_spec) ==
    IF trace_file_format(osi_output_spec) = UnsupportedFormat
    THEN Outcome(w, Raise("KeyError", "unknown extension"), NoSpec, osi_output_spec)
    ELSE IF trace_file_format(osi_output_spec) # trace_file_format(sv_spec)
    THEN Only({
      IF r1.exc # NoExc THEN Outcome(r1.w, r1.exc, NoSpec, osi_output_spec)
      ELSE Only({
        IF r2.exc # NoExc THEN Outcome(r2.w, r2.exc, NoSpec, osi_output_spec)
        ELSE Only({Outcome(r3.w, r3.exc, r3.ret, osi_output_spec) :
                    r3 \in {CopyThenClose(r2.rd, [r1 EXCEPT !.w = r2.w],
                                          Renumbered(get_messages(r2.w, r2.rd)))}})
        : r2 \in {ReaderFromSpec(r1.w, sv_spec)}})
      : r1 \in {WriterFromSpec(w, with_name_suffix(osi_output_spec, "_conv"))}})
    ELSE Outcome(w, NoExc, sv_spec, osi_output_spec)

GTGenRun(w, osi_output_spec, produced, sv_trace) ==
    Only({
      IF v # NoExc THEN Outcome(w, v, NoSpec, osi_output_spec) @@ [started |-> FALSE]
      ELSE Only({
        IF a.exc # NoExc THEN a
        ELSE Only({
          IF r.exc # NoExc THEN r
          ELSE IF r.ret.path \notin DOMAIN r.w.fs
          THEN Outcome(r.w, Raise("RuntimeError", "GTGen trace could not be generated"),
                       NoSpec, r.spec)
          ELSE r
          : r \in {crop_trace(a.w, a.ret, osi_output_spec, CropStart, NoTime)}})
        : a \in {GTGenAdapt(IF produced
                            THEN [w EXCEPT !.fs = FsPut(@, gtgen_sv_spec(osi_output_spec).path,
                                                        MkFile("osi", sv_trace, <<>>, TRUE))]
                            ELSE w,
                            osi_output_spec, gtgen_sv_spec(osi_output_spec))}}) @@ [started |-> TRUE]
      : v \in {SpecValidator({"SensorView"}, osi_output_spec)}})

\* ------------------------------------------------ moving-object queries
\* A message's pay is the sequence of the ids of its moving objects.
AssertionError == Raise("AssertionError", "message type is not SensorView or GroundTruth")

\* append the ids of one message that the list does not hold yet
RECURSIVE AppendNewIds(_, _)
AppendNewIds(ids, pay) ==
    IF pay = <<>> THEN ids
    ELSE AppendNewIds(IF InSeq(Head(pay).id, ids) THEN ids ELSE Append(ids, Head(pay).id),
                      Tail(pay))

RECURSIVE CollectIds(_, _)
CollectIds(ids, msgs) ==
    IF msgs = <<>> THEN ids ELSE CollectIds(AppendNewIds(ids, Head(msgs).pay), Tail(msgs))

\* utils.get_all_moving_object_ids: [w, exc, ret]
get_all_moving_object_ids(w, osi_trace) ==
    IF osi_trace.message_type \notin {"SensorView", "GroundTruth"}
    THEN Result(w, AssertionError) @@ [ret |-> <<>>]
    ELSE Only({
           IF r.exc # NoExc THEN Result(r.w, r.exc) @@ [ret |-> <<>>]
           ELSE Result(r.w, NoExc) @@ [ret |-> CollectIds(<<>>, get_messages(r.w, r.rd))]
           : r \in {ReaderFromSpec(w, osi_trace)}})

\* a trajectory row: timestamp and position of the bounding-box centre
MkRow(timestamp, x, y) == [timestamp |-> timestamp, x |-> x, y |-> y]

\* the rows one message contributes to the trajectory of an object
RECURSIVE MessageRows(_, _, _)
MessageRows(pay, ts, moving_object_id) ==
    IF pay = <<>> THEN <<>>
    ELSE (IF Head(pay).id = moving_object_id
          THEN <<MkRow(ts, Head(pay).x, Head(pay).y)>> ELSE <<>>)
           \o MessageRows(Tail(pay), ts, moving_object_id)

\* the rows get_trajectory_by_moving_object_id / parse_moving_objects append
RECURSIVE TrajectoryRows(_, _)
TrajectoryRows(msgs, moving_object_id) ==
    IF msgs = <<>> THEN <<>>
    ELSE MessageRows(Head(msgs).pay, Head(msgs).ts, moving_object_id)
           \o TrajectoryRows(Tail(msgs), moving_object_id)

\* utils.get_trajectory_by_moving_object_id: [w, exc, ret]
get_trajectory_by_moving_object_id(w, osi_trace, moving_object_id, start_time, end_time) ==
    IF osi_trace.message_type \notin {"SensorView", "GroundTruth"}
    THEN Result(w, AssertionError) @@ [ret |-> <<>>]
    ELSE Only({
           IF r.exc # NoExc THEN Result(r.w, r.exc) @@ [ret |-> <<>>]
           ELSE Result(r.w, NoExc)
                  @@ [ret |-> TrajectoryRows(SelectWindow(get_messages(r.w, r.rd),
                                                          start_time, end_time),
                                             moving_object_id)]
           : r \in {ReaderFromSpec(w, osi_trace)}})

\* a trajectory data frame: its rows and attrs["id"], set with the first row
MkTrajectory(id, rows) == [id |-> id, rows |-> rows]

\* the dict comprehension of get_closest_trajectory: one call of
\* get_trajectory_by_moving_object_id per id, in order: [w, exc, ret]
RECURSIVE ToolTrajectories(_, _, _, _, _)
ToolTrajectories(w, tool_channel_spec, ids, start_time, end_time) ==
    IF ids = <<>> THEN Result(w, NoExc) @@ [ret |-> <<>>]
    ELSE Only({
      IF r.exc # NoExc THEN Result(r.w, r.exc) @@ [ret |-> <<>>]
      ELSE Only({
        IF rest.exc # NoExc THEN rest
        ELSE Result(rest.w, NoExc) @@ [ret |-> <<MkTrajectory(Head(ids), r.ret)>> \o rest.ret]
        : rest \in {ToolTrajectories(r.w, tool_channel_spec, Tail(ids), start_time, end_time)}})
      : r \in {get_trajectory_by_moving_object_id(w, tool_channel_spec, Head(ids),
                                                  start_time, end_time)}})

\* math.hypot(dx, dy), by its square: the order of two distances is the
\* order of their squares
hypot2(dx, dy) == dx * dx + dy * dy

IndexError == Raise("IndexError", "single positional indexer is out-of-bounds")

\* min_distance is None or distance < min_distance
IsNearer(distance, min_distance) ==
    min_distance = <<>> \/ distance < min_distance[1]

\* the loop of get_closest_trajectory from the k-th trajectory on: [exc, ret],
\* ret <<>> for None; nearest and min_distance are <<>> before the first pass
RECURSIVE NearestLoop(_, _, _, _, _)
NearestLoop(ref_rows, trajs, k, nearest, min_distance) ==
    IF k > Len(trajs) THEN [exc |-> NoExc, ret |-> nearest]
    ELSE IF ref_rows = <<>> \/ trajs[k].rows = <<>> THEN [exc |-> IndexError, ret |-> <<>>]
    ELSE LET distance == hypot2(ref_rows[1].x - trajs[k].rows[1].x,
                                ref_rows[1].y - trajs[k].rows[1].y)
         IN  IF IsNearer(distance, min_distance)
             THEN NearestLoop(ref_rows, trajs, k + 1, <<trajs[k]>>, <<distance>>)
             ELSE NearestLoop(ref_rows, trajs, k + 1, nearest, min_distance)

\* utils.get_closest_trajectory: [w, exc, ret], ret <<>> for None
get_closest_trajectory(w, ref_rows, tool_channel_spec, start_time, end_time) ==
    Only({
      IF ids.exc # NoExc THEN Result(ids.w, ids.exc) @@ [ret |-> <<>>]
      ELSE Only({
        IF ts.exc # NoExc THEN Result(ts.w, ts.exc) @@ [ret |-> <<>>]
        ELSE Only({Result(ts.w, n.exc) @@ [ret |-> n.ret] :
                    n \in {NearestLoop(ref_rows, ts.ret, 1, <<>>, <<>>)}})
        : ts \in {ToolTrajectories(ids.w, tool_channel_spec, ids.ret, start_time, end_time)}})
      : ids \in {get_all_moving_object_ids(w, tool_channel_spec)}})

\* what compute leaves behind: the report file and, with a plot path, the plot
ReportTxt == <<"report", ".txt">>
PlotPng == <<"trajectory_similarity", ".png">>

NoMeasures == [area |-> FALSE, cl |-> FALSE, mae |-> FALSE]

\* the report and plot written after the measures: the world afterwards
WriteReport(w, ref_rows, tool_rows, plot) ==
    LET w1 == [w EXCEPT !.fs = FsPut(@, ReportTxt,
                                     MkFile("report", <<ref_rows, tool_rows>>, <<>>, TRUE))]
    IN  IF plot
        THEN [w1 EXCEPT !.fs = FsPut(@, PlotPng,
                                     MkFile("plot", <<ref_rows, tool_rows>>, <<>>, TRUE))]
        ELSE w1

\* TrajectorySimilarityMetric.compute with a result file; plot: the metric
\* has a plot path.  [w, exc, ret], ret telling which measures were computed
compute(w, reference_channel_spec, tool_channel_spec, moving_object_id, start_time, end_time, plot) ==
    Only({
      IF ids.exc # NoExc THEN Result(ids.w, ids.exc) @@ [ret |-> NoMeasures]
      ELSE IF ~InSeq(moving_object_id, ids.ret)
      THEN Result(ids.w, Raise("KeyError", "moving object id not found in reference trace"))
             @@ [ret |-> NoMeasures]
      ELSE Only({
        IF ref.exc # NoExc THEN Result(ref.w, ref.exc) @@ [ret |-> NoMeasures]
        ELSE Only({
          IF tool.exc # NoExc THEN Result(tool.w, tool.exc) @@ [ret |-> NoMeasures]
          ELSE IF tool.ret = <<>>
          THEN Result(tool.w, Raise("AttributeError", "NoneType has no attribute attrs"))
                 @@ [ret |-> NoMeasures]
          ELSE IF Len(ref.ret) < 2 \/ Len(tool.ret[1].rows) < 2
          THEN Result(tool.w, Raise("ValueError", "at least 2 points")) @@ [ret |-> NoMeasures]
          ELSE IF Len(ref.ret) # Len(tool.ret[1].rows)
          THEN Result(tool.w, Raise("ValueError", "same number of points"))
                 @@ [ret |-> NoMeasures]
          ELSE Result(WriteReport(tool.w, ref.ret, tool.ret[1].rows, plot), NoExc)
                 @@ [ret |-> [area |-> TRUE, cl |-> TRUE, mae |-> TRUE]]
          : tool \in {get_closest_trajectory(ref.w, ref.ret, tool_channel_spec,
                                             start_time, end_time)}})
        : ref \in {get_trajectory_by_moving_object_id(ids.w, reference_channel_spec,
                                                      moving_object_id, start_time, end_time)}})
      : ids \in {get_all_moving_object_ids(w, reference_channel_spec)}})

\* ---- utils/osi_reader.py: channel info ----
\* step_acc: the sum of the differences of consecutive timestamps
RECURSIVE StepAcc(_)
StepAcc(msgs) ==
    IF Len(msgs) < 2 THEN 0 ELSE (msgs[2].ts - msgs[1].ts) + StepAcc(Tail(msgs))

\* the quotient a / b of Python's true division, kept as the pair <<a, b>>
Quotient(a, b) == <<a, b>>
Zero == <<0, 1>>

\* _retrieve_channel_info_from_data over the messages of the bound topic;
\* start and stop are << >> for None.  osi_version is assigned in the loop
\* only, so reading it after no iteration is an UnboundLocalError.
retrieve_channel_info_from_data(msgs) ==
    IF msgs = <<>>
    THEN [exc |-> Raise("UnboundLocalError", "osi_version"), ret |-> <<>>]
    ELSE [exc |-> NoExc,
          ret |-> [start |-> <<msgs[1].ts>>,
                   stop |-> <<msgs[Len(msgs)].ts>>,
                   step_size_avg |-> IF Len(msgs) > 1
                                     THEN Quotient(StepAcc(msgs), Len(msgs) - 1) ELSE Zero,
                   total_steps |-> Len(msgs),
                   osi_version |-> FormatVersion(msgs[Len(msgs)].ver)]]

\* OSIChannelReader.get_channel_info(): every call scans the messages again
get_channel_info(w, rd) == retrieve_channel_info_from_data(get_messages(w, rd))

\* with from_osi_channel_specification(s) as reader: two calls of
\* reader.get_channel_info(); the result is the pair of summaries
ChannelInfoTwice(w, s) ==
    Only({
      IF r.exc # NoExc THEN Result(r.w, r.exc) @@ [ret |-> <<>>]
      ELSE Only({
        IF a.exc # NoExc THEN Result(ReaderClose(r.w, r.rd), a.exc) @@ [ret |-> <<>>]
        ELSE IF b.exc # NoExc THEN Result(ReaderClose(r.w, r.rd), b.exc) @@ [ret |-> <<>>]
        ELSE Result(ReaderClose(r.w, r.rd), NoExc) @@ [ret |-> <<a.ret, b.ret>>]
        : a \in {get_channel_info(r.w, r.rd)}, b \in {get_channel_info(r.w, r.rd)}})
      : r \in {ReaderFromSpec(w, s)}})

\* OSI2OSCMovingObject.osi_vehicle_type_to_osc_category
NoCategory == "None"

CarType == 4       \* MovingObject.VehicleClassification.TYPE_MEDIUM_CAR

osi_vehicle_type_to_osc_category ==
    [t \in 0..17 |->
       CASE t \in {2, 3, 4, 5} -> "car"
         [] t = 6 -> "van"
         [] t = 7 -> "truck"
         [] t = 9 -> "trailer"
         [] t = 10 -> "motorbike"
         [] t = 11 -> "bicycle"
         [] t = 12 -> "bus"
         [] t = 13 -> "tram"
         [] t = 14 -> "train"
         [] OTHER -> NoCategory]

Ego == <<"Ego">>

\* f"osi_moving_object_{id}" if not host_vehicle else "Ego"
entity_ref(id, host_vehicle) == IF host_vehicle THEN Ego ELSE <<"osi_moving_object_", id>>

\* the default offset from the bounding-box centre to the rear axle
DefaultRear(length_static, height_static) ==
    <<-((3 * length_static) \div 10), 0, -(height_static \div 2)>>

\* the offset __init__ stores from its bbcenter_to_rear_{x,y,z} arguments
\* (each <<>> for None, <<v>> for a number), or the exception it raises
StoredRear(rx, ry, rz, length_static, height_static) ==
    IF rx = <<>> /\ ry = <<>> /\ rz = <<>>
    THEN [exc |-> NoExc, rear |-> DefaultRear(length_static, height_static)]
    ELSE IF rx # <<>> /\ ry # <<>> /\ rz # <<>>
    THEN [exc |-> NoExc, rear |-> <<rx[1], ry[1], rz[1]>>]
    ELSE [exc |-> Raise("RuntimeError", "Problem with bbcenter_to_rear"), rear |-> <<>>]

\* OSI2OSCMovingObject.__init__: [exc, obj]
OSI2OSCMovingObject(id, length_static, height_static, vehicle_type, rx, ry, rz, host_vehicle) ==
    LET sr == StoredRear(rx, ry, rz, length_static, height_static) IN
    [exc |-> sr.exc,
     obj |-> [id |-> id, entity_ref |-> entity_ref(id, host_vehicle),
              length_static |-> length_static, height_static |-> height_static,
              vehicle_type |-> vehicle_type, bbcenter_to_rear |-> sr.rear,
              trajectory |-> <<>>]]

\* the values parse_moving_objects passes for bbcenter_to_rear_{x,y,z}
RearArguments(mo) ==
    LET v == bbcenter_to_rear_value(mo) IN <<<<v[1]>>, <<v[2]>>, <<v[3]>>>>

\* the first object with the id among the messages, in reading order
RECURSIVE FirstObservation(_, _)
FirstObservation(msgs, id) ==
    LET here == {k \in 1..Len(Head(msgs).pay) : Head(msgs).pay[k].id = id} IN
    IF here # {} THEN Head(msgs).pay[CHOOSE k \in here : \A j \in here : k <= j]
    ELSE FirstObservation(Tail(msgs), id)

\* the object parse_moving_objects builds for an id: [exc, obj]
ParsedObject(msgs, id, host_vehicle_id) ==
    LET mo == FirstObservation(msgs, id)
        args == RearArguments(mo)
        made == OSI2OSCMovingObject(id, mo.length, mo.height, mo.vtype,
                                    args[1], args[2], args[3], id = host_vehicle_id)
    IN  [exc |-> made.exc,
         obj |-> [made.obj EXCEPT !.trajectory = TrajectoryRows(msgs, id)]]

\* osi2osc.parse_moving_objects: [w, exc, ret]
parse_moving_objects(w, osi_trace_spec, host_vehicle_id) ==
    Only({
      IF r.exc # NoExc THEN Result(r.w, r.exc) @@ [ret |-> <<>>]
      ELSE Only({
        IF mt.exc # NoExc THEN Result(r.w, mt.exc) @@ [ret |-> <<>>]
        ELSE IF mt.mt \notin {"SensorView", "GroundTruth"}
        THEN Result(r.w, AssertionError) @@ [ret |-> <<>>]
        ELSE Only({
          IF \E i \in 1..Len(made) : made[i].exc # NoExc
          THEN Result(r.w, made[CHOOSE i \in 1..Len(made) :
                                  /\ made[i].exc # NoExc
                                  /\ \A j \in 1..(i - 1) : made[j].exc = NoExc].exc)
                 @@ [ret |-> <<>>]
          ELSE Result(r.w, NoExc) @@ [ret |-> [i \in 1..Len(made) |-> made[i].obj]]
          : made \in {[i \in 1..Len(ids) |-> ParsedObject(msgs, ids[i], host_vehicle_id)]}})
        : mt \in {get_message_type(r.w, r.rd)}, msgs \in {get_messages(r.w, r.rd)},
          ids \in {CollectIds(<<>>, get_messages(r.w, r.rd))}})
      : r \in {ReaderFromSpec(w, osi_trace_spec)}})

\* [obj for obj in objs if (obj.entity_ref == "Ego") == ego], in list order
RECURSIVE SelectObjects(_, _)
SelectObjects(objs, ego) ==
    IF objs = <<>> THEN <<>>
    ELSE (IF (Head(objs).entity_ref = Ego) = ego THEN <<Head(objs)>> ELSE <<>>)
           \o SelectObjects(Tail(objs), ego)

\* an ordering that keeps the objects as parsed
EgoFirst_AsParsed(objs) == objs

\* ego_objs + other_objs
EgoFirst(objs) == SelectObjects(objs, TRUE) \o SelectObjects(objs, FALSE)

\* a build_osc_scenario_object without the assertion on the category
build_osc_scenario_object_Unchecked(obj) ==
    [exc |-> NoExc,
     xml |-> [name |-> obj.entity_ref,
              vehicle |-> <<"osi_moving_object_vehicle_", obj.id>>,
              vehicleCategory |-> osi_vehicle_type_to_osc_category[obj.vehicle_type],
              center |-> <<-obj.bbcenter_to_rear[1], -obj.bbcenter_to_rear[2],
                           obj.height_static \div 2>>]]

\* build_osc_scenario_object: [exc, xml], xml the ScenarioObject's name, the
\* Vehicle's name and category and the BoundingBox/Center
build_osc_scenario_object(obj) ==
    IF obj.vehicle_type \notin DOMAIN osi_vehicle_type_to_osc_category
    THEN [exc |-> Raise("KeyError", "vehicle type"), xml |-> <<>>]
    ELSE IF osi_vehicle_type_to_osc_category[obj.vehicle_type] = NoCategory
    THEN [exc |-> Raise("AssertionError", "Missing OSI2OSC mapping for vehicle category."),
          xml |-> <<>>]
    ELSE [exc |-> NoExc,
          xml |-> [name |-> obj.entity_ref,
                   vehicle |-> <<"osi_moving_object_vehicle_", obj.id>>,
                   vehicleCategory |-> osi_vehicle_type_to_osc_category[obj.vehicle_type],
                   center |-> <<-obj.bbcenter_to_rear[1], -obj.bbcenter_to_rear[2],
                                obj.height_static \div 2>>]]

\* build_act: the Act's EntityRef and the vertices of its trajectory, each
\* row shifted by the rear-axle offset (the traces have zero orientation, for
\* which rotatePointZYX is the identity)
build_act(obj) ==
    [entityRef |-> obj.entity_ref,
     vertices |-> [k \in 1..Len(obj.trajectory) |->
                     MkRow(obj.trajectory[k].timestamp,
                           obj.trajectory[k].x + obj.bbcenter_to_rear[1],
                           obj.trajectory[k].y + obj.bbcenter_to_rear[2])]]

\* build_init_action: the Private's entityRef
build_init_action(obj) == obj.entity_ref

\* the document osi2osc writes: [exc, doc], doc the children of Entities, of
\* Init/Actions and of the Story
BuildDocument(objs) ==
    LET so == [i \in 1..Len(objs) |-> build_osc_scenario_object(objs[i])] IN
    IF \E i \in 1..Len(so) : so[i].exc # NoExc
    THEN [exc |-> so[CHOOSE i \in 1..Len(so) :
                       /\ so[i].exc # NoExc
                       /\ \A j \in 1..(i - 1) : so[j].exc = NoExc].exc,
          doc |-> <<>>]
    ELSE [exc |-> NoExc,
          doc |-> [entities |-> [i \in 1..Len(objs) |-> so[i].xml],
                   init |-> [i \in 1..Len(objs) |-> build_init_action(objs[i])],
                   acts |-> [i \in 1..Len(objs) |-> build_act(objs[i])]]]

\* osi2osc.osi2osc: [w, exc, ret]; the file written holds the document
osi2osc(w, osi_trace_spec, path_xosc) ==
    Only({
      IF r.exc # NoExc THEN Result(r.w, r.exc) @@ [ret |-> <<>>]
      ELSE Only({
        IF mt.exc # NoExc THEN Result(r.w, mt.exc) @@ [ret |-> <<>>]
        ELSE IF mt.mt \notin {"SensorView", "GroundTruth"}
        THEN Result(r.w, AssertionError) @@ [ret |-> <<>>]
        ELSE IF msgs = <<>>
        \* _retrieve_channel_info_from_data reads osi_version, never assigned
        THEN Result(r.w, Raise("UnboundLocalError", "osi_version")) @@ [ret |-> <<>>]
        ELSE Only({
          IF p.exc # NoExc THEN Result(p.w, p.exc) @@ [ret |-> <<>>]
          ELSE Only({
            IF d.exc # NoExc THEN Result(p.w, d.exc) @@ [ret |-> <<>>]
            ELSE Result([p.w EXCEPT !.fs = FsPut(@, path_xosc,
                                                 MkFile("xosc", <<d.doc>>, <<>>, TRUE))],
                        NoExc) @@ [ret |-> path_xosc]
            : d \in {BuildDocument(EgoFirst(p.ret))}})
          : p \in {parse_moving_objects(r.w, osi_trace_spec, host_vehicle_id_value(msgs[1]))}})
        : mt \in {get_message_type(r.w, r.rd)}, msgs \in {get_messages(r.w, r.rd)}})
      : r \in {ReaderFromSpec(w, osi_trace_spec)}})

\* ---------------------------------------------------------- data providers
\* The provider's part of the disk: whether its base directory exists and
\* the files in it (name -> content).  A provider object: its class, its
\* force_download argument and its loaded flag.
MkDisk(dir, files) == [dir |-> dir, files |-> files]

NoFiles == [n \in {} |-> ""]

FinalName == "trace.osi"          \* self.filename, the last component of the uri
TmpName == "trace.osi.tmp"        \* self.filename + ".tmp"
MemberName == "member.osi"        \* the member of the archive a ZIP provider fetches

PutFile(d, name, content) ==
    MkDisk(d.dir, [n \in (DOMAIN d.files) \cup {name} |->
                      IF n = name THEN content ELSE d.files[n]])

DropFile(d, name) == MkDisk(d.dir, [n \in (DOMAIN d.files) \ {name} |-> d.files[n]])

MkProvider(kind, force_download, loaded) ==
    [kind |-> kind, force_download |-> force_download, loaded |-> loaded]

\* DataProvider.ensure_base_path
ensure_base_path(d) == IF ~d.dir THEN MkDisk(TRUE, d.files) ELSE d

\* DataProvider.ensure_data_path: the exception raised
base_ensure_data_path(d, path) ==
    IF ~d.dir \/ path \notin DOMAIN d.files
    THEN Raise("FileNotFoundError", "the path does not exist")
    ELSE NoExc

\* the constructors: the loaded flag the new object starts with
InitialLoaded(kind, force_download, d) ==
    IF kind = "download"
    THEN IF force_download THEN FALSE ELSE d.dir /\ FinalName \in DOMAIN d.files
    ELSE IF kind = "zip"
    THEN IF force_download THEN FALSE ELSE DOMAIN d.files # {}
    ELSE FALSE

\* the constructors: the exception raised.  base_path.iterdir() of the ZIP
\* provider's constructor needs the directory to exist.
ConstructorException(kind, force_download, d) ==
    IF kind = "zip" /\ ~force_download /\ ~d.dir
    THEN Raise("FileNotFoundError", "iterdir: no such directory")
    ELSE NoExc

\* a finally clause that leaves the temporary file behind
DownloadFinally_KeepTmp(d) == d

\* the finally clause of DownloadDataProvider.download
DownloadFinally(d) == IF TmpName \in DOMAIN d.files THEN DropFile(d, TmpName) ELSE d

NetOutcomes == {"ok", "connection_error", "http_error", "io_error", "replace_error"}

\* DownloadDataProvider.download; net: what the transfer runs into.
\* Result: the disk, the provider and the exception afterwards.
download(p, d, net) ==
    LET d1 == ensure_base_path(d)
        tried ==
          CASE net = "connection_error" ->
                 [d |-> d1, loaded |-> p.loaded, exc |-> Raise("ConnectionError", "get failed")]
            [] net = "http_error" ->
                 [d |-> d1, loaded |-> p.loaded, exc |-> Raise("HTTPError", "raise_for_status")]
            [] net = "io_error" ->
                 [d |-> PutFile(d1, TmpName, "partial"), loaded |-> p.loaded,
                  exc |-> Raise("OSError", "write failed")]
            [] net = "replace_error" ->
                 [d |-> PutFile(d1, TmpName, "body"), loaded |-> p.loaded,
                  exc |-> Raise("OSError", "replace failed")]
            [] OTHER ->
                 [d |-> DropFile(PutFile(PutFile(d1, TmpName, "body"), FinalName, "body"),
                                 TmpName),
                  loaded |-> TRUE, exc |-> NoExc]
    IN  [d |-> DownloadFinally(tried.d), p |-> [p EXCEPT !.loaded = tried.loaded],
         exc |-> tried.exc]

\* DownloadZIPDataProvider.download: no status check; a body that is no
\* archive fails in ZipFile, an I/O error leaves the members extracted so far
zip_download(p, d, net) ==
    CASE net = "connection_error" ->
           [d |-> d, p |-> p, exc |-> Raise("ConnectionError", "get failed")]
      [] net = "http_error" ->
           [d |-> d, p |-> p, exc |-> Raise("BadZipFile", "file is not a zip file")]
      [] net \in {"io_error", "replace_error"} ->
           [d |-> PutFile(ensure_base_path(d), MemberName, "partial"), p |-> p,
            exc |-> Raise("OSError", "write failed")]
      [] OTHER ->
           [d |-> PutFile(ensure_base_path(d), MemberName, "body"),
            p |-> [p EXCEPT !.loaded = TRUE], exc |-> NoExc]

\* self.download() of the provider's class
provider_download(p, d, net) ==
    IF p.kind = "zip" THEN zip_download(p, d, net) ELSE download(p, d, net)

\* a test that downloads whenever the base directory holds no file
NeedsDownload_WhenEmpty(p, d) == DOMAIN d.files = {}

\* the test of BaseDownloadDataProvider.ensure_data_path: `if not self.loaded`
NeedsDownload(p, d) == ~p.loaded

\* ensure_data_path of the provider's class: [d, p, exc, dl] with dl the
\* outcome of the download the call made ("none": it made none)
ensure_data_path(p, d, path, net) ==
    IF p.kind = "builtin"
    THEN [d |-> d, p |-> p, exc |-> base_ensure_data_path(d, path), dl |-> "none"]
    ELSE LET d1 == ensure_base_path(d) IN
         IF NeedsDownload(p, d1)
         THEN LET r == provider_download(p, d1, net) IN
              IF r.exc # NoExc THEN r @@ [dl |-> net]
              ELSE [d |-> r.d, p |-> r.p, exc |-> base_ensure_data_path(r.d, path),
                    dl |-> net]
         ELSE [d |-> d1, p |-> p, exc |-> base_ensure_data_path(d1, path), dl |-> "none"]

\* a removal that empties the directory and leaves it in place
RemoveTree_KeepDirectory(d) == MkDisk(TRUE, NoFiles)

\* shutil.rmtree(self.base_path) running to its end
RemoveTree(d) == MkDisk(FALSE, NoFiles)

\* the exception classes `except Exception` catches
CaughtByExcept(exc) == exc.type \in {"OSError", "PermissionError", "FileNotFoundError"}

\* cleanup of the provider's class: [d, exc, ret]; failed: rmtree raises,
\* with the files in kept still there
cleanup(p, d, failed, kept) ==
    IF p.kind = "builtin" THEN [d |-> d, exc |-> NoExc, ret |-> TRUE]
    ELSE LET tried ==
               IF ~d.dir THEN [d |-> d, exc |-> NoExc]
               ELSE IF failed
               THEN [d |-> MkDisk(TRUE, [n \in (DOMAIN d.files) \cap kept |-> d.files[n]]),
                     exc |-> Raise("OSError", "rmtree failed")]
               ELSE [d |-> RemoveTree(d), exc |-> NoExc]
         IN  [d |-> tried.d,
              exc |-> IF CaughtByExcept(tried.exc) THEN NoExc ELSE tried.exc,
              ret |-> TRUE]

\* ------------------------------------------------------------ file names
OutMcap == <<"out", ".mcap">>
OutOsi == <<"out", ".osi">>
OtherMcap == <<"other", ".mcap">>
EmptyFs == [p \in {} |-> MkFile("none", <<>>, <<>>, FALSE)]


\* ------------------------------ specification WriterSpec: one multi writer
\* The caller's specifications for add_osi_channel.  1 and 2 share one
\* metadata dict (2 was built from 1 with with_topic/with_message_type), 3
\* leaves the topic unset, 4 names the topic 3 is auto-filled with, 5 has no
\* metadata, 6 no message type, 7 another path.
WriterCallerSpecs ==
    <<MkSpec(OutMcap, "SensorView", <<"a">>, 1),
      with_message_type(with_topic(MkSpec(OutMcap, "SensorView", <<"a">>, 1), <<"b">>), "GroundTruth"),
      MkSpec(OutMcap, "SensorView", NoTopic, 2),
      MkSpec(OutMcap, "SensorView", <<"out">>, 2),
      MkSpec(OutMcap, "GroundTruth", <<"c">>, NoDict),
      MkSpec(OutMcap, NoneType, <<"d">>, 2),
      MkSpec(OtherMcap, "SensorView", <<"e">>, 2)>>

\* what the caller may have put under the osi_version key: nothing, a
\* version, the empty string, a string that is no version triple
PinChoices ==
    {EmptyDict,
     DictSet(EmptyDict, OsiVersionKey, FormatVersion(CurrentInterfaceVersion)),
     DictSet(EmptyDict, OsiVersionKey, <<>>),
     DictSet(EmptyDict, OsiVersionKey, <<3, 7>>)}

WriterTopics == {<<"a">>, <<"b">>, <<"out">>, <<"c">>, <<"zz">>}
WriterVersions == {CurrentInterfaceVersion, OlderInterfaceVersion}

WLast(op, exc, topic, msg) == [op |-> op, exc |-> exc, topic |-> topic, msg |-> msg]

WriterInit ==
    \E dA \in PinChoices :
      LET heap == [i \in {1, 2} |-> IF i = 1 THEN dA ELSE DictSet(EmptyDict, DescriptionKey, "d")]
          r == MultiInit(MkWorld(EmptyFs, heap, <<>>), OutMcap, 1)
      IN  /\ fs = r.w.fs
          /\ dicts = r.w.dicts
          /\ opened = r.w.opened
          /\ mw = r.wr
          /\ cs = WriterCallerSpecs
          /\ wlast = WLast("init", r.exc, NoTopic, NoMsg)
          /\ accepted = [t \in WriterTopics |-> {}]
          /\ nops = 0
          /\ nwrites = 0
          /\ log = <<>>
          /\ disk = {}
          /\ prov = 0
          /\ plast = 0

Registering == wlast.op \in {"init", "add_osi_channel"}
Closed == wlast.op = "close"

\* writer.add_osi_channel(cs[i]); the caller's object is the one mutated
WAddChannel(i) ==
    /\ Registering
    /\ nops < MaxChannels
    /\ LET r == add_osi_channel(MkWorld(fs, dicts, opened), mw, cs[i])
       IN  /\ fs' = r.w.fs
           /\ dicts' = r.w.dicts
           /\ opened' = r.w.opened
           /\ mw' = r.wr
           /\ cs' = [cs EXCEPT ![i] = r.spec]
           /\ wlast' = WLast("add_osi_channel", r.exc, r.spec.topic, NoMsg)
    /\ nops' = nops + 1
    /\ UNCHANGED <<accepted, nwrites, log, provVars>>

\* writer.write(message, topic)
WWrite(v, topic) ==
    /\ ~Closed
    /\ nwrites < MaxWrites
    /\ LET message == MkMsg("SensorView", mw.count, v, 0, <<>>)
           r == MultiWrite(MkWorld(fs, dicts, opened), mw, message, topic)
       IN  /\ fs' = r.w.fs
           /\ dicts' = r.w.dicts
           /\ opened' = r.w.opened
           /\ mw' = r.wr
           /\ wlast' = WLast("write", r.exc, topic, message)
           /\ accepted' = IF r.exc = NoExc
                          THEN [accepted EXCEPT ![topic] = @ \cup {v}]
                          ELSE accepted
    /\ nwrites' = nwrites + 1
    /\ UNCHANGED <<cs, nops, log, provVars>>

\* writer.close()
WClose ==
    /\ ~Closed
    /\ LET w1 == MultiClose(MkWorld(fs, dicts, opened), mw)
       IN  /\ fs' = w1.fs
           /\ dicts' = w1.dicts
           /\ opened' = w1.opened
    /\ wlast' = WLast("close", NoExc, NoTopic, NoMsg)
    /\ UNCHANGED <<mw, cs, accepted, nops, nwrites, log, provVars>>

WriterNext ==
    \/ \E i \in 1..Len(WriterCallerSpecs) : WAddChannel(i)
    \/ \E v \in WriterVersions, t \in WriterTopics : WWrite(v, t)
    \/ WClose

WriterSpec == WriterInit /\ [][WriterNext]_vars

\* C2: on every topic of the multi-channel writer all accepted messages
\* carry the same OSI version triple; and once the metadata of the topic's
\* channel holds an osi_version, a write of a message with another version
\* raises ValueError and changes neither written_message_count nor any
\* channel metadata.
C2_OneVersionPerTopic == \A t \in WriterTopics : Cardinality(accepted[t]) <= 1

C2_PinnedBefore(t) ==
    /\ t \in DOMAIN mw.active
    /\ OsiVersionKey \in DOMAIN dicts[mw.meta[t]]
    /\ dicts[mw.meta[t]][OsiVersionKey] # <<>>

C2_MismatchRejected ==
    (wlast'.op = "write" /\ nwrites' = nwrites + 1
        /\ C2_PinnedBefore(wlast'.topic)
        /\ dicts[mw.meta[wlast'.topic]][OsiVersionKey] # FormatVersion(wlast'.msg.ver))
    => (wlast'.exc.type = "ValueError" /\ mw'.count = mw.count /\ dicts' = dicts
        /\ accepted' = accepted)

MaxLen == 2        \* messages in the input traces

NamedOsi ==
    <<"20240101T120000Z", "_", "gt", "_", "3.7.0", "_", "6.30.2", "_", "10", "_", "trace", ".osi">>
InMcap == <<"in", ".mcap">>
EmptyMcap == <<"empty", ".mcap">>
MissingMcap == <<"missing", ".mcap">>
OutTxt == <<"out", ".txt">>
OutXosc == <<"out", ".xosc">>
OutOsiXz == <<"out", ".osi", ".xz">>

HostId == 2        \* the id of the host vehicle in the input traces

\* an object of the input traces in message k: a car of length 10 and height
\* 2 without vehicle attributes, driving along x
TraceObject(id, k) == MkObject(id, CarType, <<>>, 10, 2, id + k, 0)

\* the k-th message of an input trace: timestamp k - 1, the host vehicle
\* listed after another object in the first message
TraceMessage(type, k) ==
    MkMsg(type, k - 1, CurrentInterfaceVersion, HostId,
          IF k % 2 = 1 THEN <<TraceObject(HostId - 1, k), TraceObject(HostId, k)>>
          ELSE <<TraceObject(HostId, k), TraceObject(HostId + 1, k)>>)

Trace(type, n) == [k \in 1..n |-> TraceMessage(type, k)]

\* the files present at the start: a single-channel GroundTruth trace named
\* by the convention, a container with a GroundTruth channel and a channel
\* of a foreign schema, and a container that was closed with no channel
InitialFs(n) ==
    LET gt == [MkChan(<<"gt">>, SchemaName("GroundTruth"), EmptyDict)
                 EXCEPT !.msgs = Trace("GroundTruth", n)]
        raw == MkChan(<<"raw">>, <<"foxglove.", "Log">>, EmptyDict)
    IN  [p \in {NamedOsi, InMcap, EmptyMcap} |->
           IF p = NamedOsi THEN MkFile("osi", Trace("GroundTruth", n), <<>>, TRUE)
           ELSE IF p = InMcap THEN MkFile("mcap", <<>>, <<gt, raw>>, TRUE)
           ELSE MkFile("mcap", <<>>, <<>>, TRUE)]

\* the caller's specifications; specification k owns metadata dict k
TraceCallerSpecs ==
    <<MkSpec(NamedOsi, "GroundTruth", NoTopic, 1),
      MkSpec(NamedOsi, NoneType, NoTopic, 2),
      MkSpec(InMcap, NoneType, NoTopic, 3),
      MkSpec(InMcap, "GroundTruth", <<"gt">>, 4),
      MkSpec(InMcap, "SensorView", <<"gt">>, 5),
      MkSpec(InMcap, NoneType, <<"zz">>, 6),
      MkSpec(EmptyMcap, NoneType, NoTopic, 7),
      MkSpec(MissingMcap, "GroundTruth", NoTopic, 8),
      MkSpec(InMcap, "GroundTruth", <<"raw">>, 9),
      MkSpec(OutMcap, "SensorView", NoTopic, 10),
      MkSpec(OutOsi, "SensorView", NoTopic, 11),
      MkSpec(OutMcap, "GroundTruth", NoTopic, 12),
      MkSpec(OutOsi, "GroundTruth", NoTopic, 13),
      MkSpec(OutMcap, NoneType, NoTopic, 14),
      MkSpec(OutTxt, "GroundTruth", NoTopic, 15),
      MkSpec(OutOsi, "SensorData", NoTopic, 16),
      MkSpec(OutMcap, "SensorData", NoTopic, 17),
      MkSpec(OutOsiXz, "SensorView", NoTopic, 18),
      MkSpec(OutOsi, NoneType, NoTopic, 19)>>

TraceInit ==
    \E n \in 0..MaxLen :
      /\ fs = InitialFs(n)
      /\ dicts = [i \in 1..Len(TraceCallerSpecs) |-> EmptyDict]
      /\ cs = TraceCallerSpecs
      /\ opened = <<>>
      /\ log = <<>>
      /\ nops = 0
      /\ mw = NoWriter
      /\ wlast = WLast("none", NoExc, NoTopic, NoMsg)
      /\ accepted = [t \in WriterTopics |-> {}]
      /\ nwrites = 0
      /\ disk = {}
      /\ prov = 0
      /\ plast = 0

Last == log[Len(log)]

\* the world an operation starts in
Now == MkWorld(fs, dicts, <<>>)

\* what is recorded of one operation: its specifications and the files as
\* they were before it, its argument, and its outcome
LogRecord(op, i, j, arg, r) ==
    [op |-> op,
     in |-> IF i = 0 THEN NoSpec ELSE cs[i],
     out |-> IF j = 0 THEN NoSpec ELSE cs[j],
     arg |-> arg, exc |-> r.exc, ret |-> r.ret, pre |-> fs,
     started |-> "started" \in DOMAIN r /\ r.started]

\* one operation op on cs[i] (input) and cs[j] (output), 0 for none, with
\* outcome r; the caller's output object is the one the operation mutated
Apply(op, i, j, arg, r) ==
    /\ fs' = r.w.fs
    /\ dicts' = r.w.dicts
    /\ opened' = r.w.opened
    /\ cs' = IF j = 0 THEN cs ELSE [cs EXCEPT ![j] = r.spec]
    /\ log' = Append(log, LogRecord(op, i, j, arg, r))
    /\ nops' = nops + 1
    /\ UNCHANGED <<writerVars, provVars>>

\* `with from_osi_channel_specification(spec) as writer: pass`, then
\* writer.get_channel_specification()
ResolvedWriterSpec(w, s) ==
    Only({
      IF r1.exc # NoExc THEN Outcome(r1.w, r1.exc, NoSpec, r1.spec)
      ELSE Only({Outcome(r2.w, r2.exc, r2.spec, r1.spec) :
                  r2 \in {get_channel_specification(ChannelWriterClose(r1.w, r1.cw), r1.cw)}})
      : r1 \in {WriterFromSpec(w, s)}})

\* the trace the simulator exports: GroundTruth messages of its own
\* interface version, host vehicle id left at the default
ToolTrace ==
    [k \in 1..MaxLen |->
       MkMsg("GroundTruth", k - 1, OlderInterfaceVersion, NoHost,
             <<TraceObject(0, k), TraceObject(k, k)>>)]

ReaderInputs == (1..9) \cup {12}
ConvertPairs == {<<1, 12>>, <<12, 13>>, <<4, 13>>, <<3, 15>>}
CropPairs == {<<1, 13>>, <<1, 15>>, <<8, 13>>}
Windows == {<<NoTime, NoTime>>, <<1, 1>>}
ESMiniOutputs == (10..17) \cup {19}
GTGenOutputs == {10, 11, 12, 13, 14, 16, 17}
Gt2svPairs == {<<1, 10>>, <<1, 11>>, <<8, 10>>}
WriterOutputs == {10, 11, 14, 15}
QueryInputs == {1, 2, 8}
ParseInputs == {1, 5, 8}
Osi2oscInputs == {1, 4, 8}
AutodetectInputs == {2, 3}

\* OSIChannelReader.from_osi_channel_specification(cs[i]); the reader
\* returned stays with the caller
TReader(i) ==
    /\ nops < MaxOps
    /\ \E r \in {ReaderFromSpec(Now, cs[i])} :
        Apply("from_osi_channel_specification", i, 0, <<>>, Outcome(r.w, r.exc, r.rd, NoSpec))

\* cs[i].try_autodetect_message_type()
TAutodetect(i) ==
    /\ nops < MaxOps
    /\ \E r \in {try_autodetect_message_type(Now, cs[i])} :
        Apply("try_autodetect_message_type", 0, i, <<>>, Outcome(r.w, r.exc, r.ok, r.spec))

\* a writer made from cs[j], closed, asked for its specification
TWriter(j) ==
    /\ nops < MaxOps
    /\ \E r \in {ResolvedWriterSpec(Now, cs[j])} :
        Apply("get_channel_specification", 0, j, <<>>, r)

TConvert(i, j) ==
    /\ nops < MaxOps
    /\ \E r \in {convert(Now, cs[i], cs[j])} : Apply("convert", i, j, <<>>, r)

TCrop(i, j, win) ==
    /\ nops < MaxOps
    /\ \E r \in {crop_trace(Now, cs[i], cs[j], win[1], win[2])} :
        Apply("crop_trace", i, j, win, r)

TGt2sv(i, j) ==
    /\ nops < MaxOps
    /\ \E r \in {gt2sv(Now, cs[i], cs[j])} : Apply("gt2sv", i, j, <<>>, r)

\* ESMini.run(..., cs[j]); produced: the simulator wrote its trace
TESMini(j, produced) ==
    /\ nops < MaxOps
    /\ \E r \in {ESMiniRun(Now, cs[j], produced, ToolTrace)} :
        Apply("ESMini.run", 0, j, <<produced>>, r)

SingleOutputs == {10, 11, 15, 18}

\* OSITraceWriterSingle(cs[j].path, cs[j].message_type, compress); the
\* writer returned stays with the caller
TSingle(j, compress) ==
    /\ nops < MaxOps
    /\ \E r \in {SingleInit(Now, cs[j].path, cs[j].message_type, compress)} :
        Apply("OSITraceWriterSingle", 0, j, <<compress>>, Outcome(r.w, r.exc, r.wr, cs[j]))

InfoInputs == {1, 4, 7, 8}

TChannelInfo(i) ==
    /\ nops < MaxOps
    /\ \E r \in {ChannelInfoTwice(Now, cs[i])} :
        Apply("get_channel_info", i, 0, <<>>, Outcome(r.w, r.exc, r.ret, NoSpec))

\* the trace gtgen_cli exports: SensorView messages
GTGenTrace == [k \in 1..MaxLen |-> [ToolTrace[k] EXCEPT !.type = "SensorView"]]

\* GTGen_Simulator.run(..., cs[j]); produced: the simulator wrote its trace
TGTGen(j, produced) ==
    /\ nops < MaxOps
    /\ \E r \in {GTGenRun(Now, cs[j], produced, GTGenTrace)} :
        Apply("GTGen_Simulator.run", 0, j, <<produced>>, r)

TGetAllIds(i) ==
    /\ nops < MaxOps
    /\ \E r \in {get_all_moving_object_ids(Now, cs[i])} :
        Apply("get_all_moving_object_ids", i, 0, <<>>, Outcome(r.w, r.exc, r.ret, NoSpec))

TGetTrajectory(i, win) ==
    /\ nops < MaxOps
    /\ \E r \in {get_trajectory_by_moving_object_id(Now, cs[i], HostId, win[1], win[2])} :
        Apply("get_trajectory_by_moving_object_id", i, 0, win,
                  Outcome(r.w, r.exc, r.ret, NoSpec))

TParse(i) ==
    /\ nops < MaxOps
    /\ \E r \in {parse_moving_objects(Now, cs[i], HostId)} :
        Apply("parse_moving_objects", i, 0, <<>>, Outcome(r.w, r.exc, r.ret, NoSpec))

TOsi2osc(i) ==
    /\ nops < MaxOps
    /\ \E r \in {osi2osc(Now, cs[i], OutXosc)} :
        Apply("osi2osc", i, 0, <<>>, Outcome(r.w, r.exc, r.ret, NoSpec))

TraceNext ==
    \/ \E i \in ReaderInputs : TReader(i)
    \/ \E i \in AutodetectInputs : TAutodetect(i)
    \/ \E j \in WriterOutputs : TWriter(j)
    \/ \E pr \in ConvertPairs : TConvert(pr[1], pr[2])
    \/ \E pr \in CropPairs, win \in Windows : TCrop(pr[1], pr[2], win)
    \/ \E pr \in Gt2svPairs : TGt2sv(pr[1], pr[2])
    \/ \E j \in ESMiniOutputs, produced \in BOOLEAN : TESMini(j, produced)
    \/ \E j \in GTGenOutputs, produced \in BOOLEAN : TGTGen(j, produced)
    \/ \E j \in SingleOutputs, compress \in BOOLEAN : TSingle(j, compress)
    \/ \E i \in InfoInputs : TChannelInfo(i)
    \/ \E i \in QueryInputs : TGetAllIds(i)
    \/ \E i \in QueryInputs, win \in Windows : TGetTrajectory(i, win)
    \/ \E i \in ParseInputs : TParse(i)
    \/ \E i \in Osi2oscInputs : TOsi2osc(i)

TraceSpec == TraceInit /\ [][TraceNext]_vars

\* ------------------------------------------------- claims on TraceSpec
Did(op) == Len(log) > 0 /\ Last.op = op

\* C1: ESMini.run, asked for SensorView or GroundTruth in a single- or
\* multi-channel file that does not exist yet, returns, once the simulator
\* has written its intermediate trace, a specification with the requested
\* path, message type and container format whose file exists.
C1_RunReturnsRequested ==
    (/\ Did("ESMini.run")
     /\ Last.out.message_type \in {"SensorView", "GroundTruth"}
     /\ trace_file_format(Last.out) \in {SINGLE_CHANNEL, MULTI_CHANNEL}
     /\ Last.out.path \notin DOMAIN Last.pre
     /\ Last.arg[1])
    => (/\ Last.exc = NoExc
        /\ Last.ret.path = Last.out.path
        /\ Last.ret.path \in DOMAIN fs
        /\ Last.ret.message_type = Last.out.message_type
        /\ trace_file_format(Last.ret) = trace_file_format(Last.out))

\* C3: get_channel_specification() of a writer made by
\* from_osi_channel_specification, from a single-channel specification as
\* well as from a multi-channel one, returns the writer's path, the message
\* type, the final topic (the file's base name when the request left it
\* unset) and the metadata used.
C3_ResolvedSpecification ==
    (/\ Did("get_channel_specification")
     /\ trace_file_format(Last.out) \in {SINGLE_CHANNEL, MULTI_CHANNEL}
     /\ Last.out.message_type \in WriterMessageTypes
     /\ Last.out.path \notin DOMAIN Last.pre)
    => (/\ Last.exc = NoExc
        /\ Last.ret = MkSpec(Last.out.path, Last.out.message_type,
                             IF Last.out.topic = NoTopic THEN Stem(Last.out.path)
                             ELSE Last.out.topic,
                             Last.out.metadata))

\* what the round trip has to preserve of a trace
TimesAndPayloads(msgs) == [k \in 1..Len(msgs) |-> <<msgs[k].ts, msgs[k].pay>>]

\* C4: convert(A.osi -> B.mcap) followed by convert(B.mcap -> C.osi): both
\* calls return the resolved specification of their output, and C holds
\* the messages of A: same number, same order, same timestamps and payloads.
C4_RoundTrip ==
    (/\ Len(log) >= 2
     /\ log[Len(log) - 1].op = "convert" /\ Last.op = "convert"
     /\ trace_file_format(log[Len(log) - 1].in) = SINGLE_CHANNEL
     /\ log[Len(log) - 1].in.message_type # NoneType
     /\ log[Len(log) - 1].in.path \in DOMAIN log[Len(log) - 1].pre
     /\ trace_file_format(log[Len(log) - 1].out) = MULTI_CHANNEL
     /\ log[Len(log) - 1].out.path \notin DOMAIN log[Len(log) - 1].pre
     /\ Last.in.path = log[Len(log) - 1].out.path
     /\ trace_file_format(Last.out) = SINGLE_CHANNEL
     /\ Last.out.path \notin DOMAIN Last.pre)
    => (/\ log[Len(log) - 1].exc = NoExc
        /\ log[Len(log) - 1].ret.path = log[Len(log) - 1].out.path
        /\ Last.exc = NoExc
        /\ Last.ret.path = Last.out.path
        /\ Last.out.path \in DOMAIN fs
        /\ TimesAndPayloads(fs[Last.out.path].msgs)
             = TimesAndPayloads(log[Len(log) - 1].pre[log[Len(log) - 1].in.path].msgs))

\* C5: the reader for an existing single-channel file whose specification
\* names no message type is constructed with the type detected from the
\* file name when the name follows the convention, and construction fails
\* with "please specify the message type explicitly" only when the name
\* yields no type.
C5_SingleChannelDetection ==
    (/\ Did("from_osi_channel_specification")
     /\ trace_file_format(Last.in) = SINGLE_CHANNEL
     /\ Last.in.path \in DOMAIN Last.pre
     /\ Last.in.message_type = NoneType)
    => IF parse_osi_trace_filename_type(Last.in.path) # NoneType
       THEN /\ Last.exc = NoExc
            /\ Last.ret.message_type = parse_osi_trace_filename_type(Last.in.path)
       ELSE Last.exc = Raise("ValueError", "please specify the message type explicitly")

\* the reader was asked for a channel of a multi-channel file
C6_Call ==
    /\ Did("from_osi_channel_specification")
    /\ trace_file_format(Last.in) = MULTI_CHANNEL

C6_Topics == get_available_topics(Last.pre[Last.in.path])

C6_Schema(t) == FirstChannel(Last.pre[Last.in.path], t).schema

C6_TopicMissing == Raise("ValueError", "topic not found; available topics listed")

C6_TypeMismatch == Raise("ValueError", "channel has another message type than requested")

\* C6 as stated: on a multi-channel file the reader is bound to the first
\* available topic when none is requested; a requested topic that is absent
\* raises the error listing the available topics; a requested message type
\* other than the schema-derived one raises the type-mismatch error; every
\* other case returns a reader on the requested topic; a missing file
\* raises FileNotFoundError with nothing opened.
C6_AsStated ==
    C6_Call =>
      IF Last.in.path \notin DOMAIN Last.pre
      THEN Last.exc.type = "FileNotFoundError" /\ opened = <<>>
      ELSE Last.pre[Last.in.path].finished =>
        IF Last.in.topic = NoTopic /\ C6_Topics = <<>>
        THEN Last.exc = NoExc
        ELSE IF Last.in.topic # NoTopic /\ ~InSeq(Last.in.topic, C6_Topics)
        THEN Last.exc = C6_TopicMissing
        ELSE LET bound == IF Last.in.topic = NoTopic THEN C6_Topics[1] ELSE Last.in.topic
             IN  IF /\ Last.in.message_type # NoneType
                    /\ C6_Schema(bound) # SchemaName(Last.in.message_type)
                 THEN Last.exc = C6_TypeMismatch
                 ELSE Last.exc = NoExc /\ Last.ret.topic = bound

\* C6, amended: on a finished multi-channel file, with no topic requested
\* the reader is bound to the first available topic, and a container with
\* no channel raises ValueError (no topics found); a requested topic that
\* is absent raises the error listing the available topics; with a message
\* type requested, a bound channel whose schema name does not start with
\* "osi3." raises ValueError and one whose schema-derived type differs
\* raises the type-mismatch error; every other case returns a reader on the
\* requested topic.  A missing file raises FileNotFoundError with nothing
\* opened.
C6_ReaderBinding ==
    C6_Call =>
      IF Last.in.path \notin DOMAIN Last.pre
      THEN Last.exc.type = "FileNotFoundError" /\ opened = <<>>
      ELSE Last.pre[Last.in.path].finished =>
        IF Last.in.topic = NoTopic /\ C6_Topics = <<>>
        THEN Last.exc = Raise("ValueError", "no topics found")
        ELSE IF Last.in.topic # NoTopic /\ ~InSeq(Last.in.topic, C6_Topics)
        THEN Last.exc = C6_TopicMissing
        ELSE LET bound == IF Last.in.topic = NoTopic THEN C6_Topics[1] ELSE Last.in.topic
             IN  IF Last.in.message_type # NoneType /\ C6_Schema(bound)[1] # "osi3."
                 THEN Last.exc = Raise("ValueError", "schema name does not start with osi3.")
                 ELSE IF /\ Last.in.message_type # NoneType
                         /\ C6_Schema(bound)[2] # Last.in.message_type
                 THEN Last.exc = C6_TypeMismatch
                 ELSE /\ Last.exc = NoExc
                      /\ Last.ret.topic = bound
                      /\ Last.ret.path = Last.in.path

\* no topic was requested of a container with several channels and the
\* reader came back bound to the first of them
C6_Witness ==
    /\ C6_Call
    /\ Last.in.path \in DOMAIN Last.pre
    /\ Last.in.topic = NoTopic
    /\ Len(C6_Topics) >= 2
    /\ Last.exc = NoExc
    /\ Last.ret.topic = C6_Topics[1]

C7_Operations ==
    {"osi2osc", "parse_moving_objects", "get_all_moving_object_ids",
     "get_trajectory_by_moving_object_id", "crop_trace", "gt2sv", "ESMini.run",
     "from_osi_channel_specification"}

\* C7: when one of the operations above has returned or raised, every
\* trace reader and writer it opened has been closed exactly once (the
\* reader from_osi_channel_specification hands to its caller excepted).
C7_HandlesReleased ==
    (Len(log) > 0 /\ Last.op \in C7_Operations) =>
      \A h \in 1..Len(opened) :
        \/ opened[h].closes = 1
        \/ /\ Last.op = "from_osi_channel_specification"
           /\ Last.exc = NoExc
           /\ Last.ret.h = h

\* ------------------------------ specification ProviderSpec: one provider
AbsentName == "absent.osi"
RequestedPaths == {FinalName, MemberName, AbsentName}

\* the provider's directory when the provider is constructed: missing,
\* empty, holding an earlier download, holding one and a stale temporary file
InitialDisks ==
    {MkDisk(FALSE, NoFiles),
     MkDisk(TRUE, NoFiles),
     PutFile(PutFile(MkDisk(TRUE, NoFiles), FinalName, "old"), MemberName, "old"),
     PutFile(PutFile(MkDisk(TRUE, NoFiles), FinalName, "old"), TmpName, "partial")}

PLast(op, path, exc, dl, failed, pre, preLoaded, preSucceeded, succeeded) ==
    [op |-> op, path |-> path, exc |-> exc, dl |-> dl, failed |-> failed, pre |-> pre,
     preLoaded |-> preLoaded, preSucceeded |-> preSucceeded, succeeded |-> succeeded]

ProviderInit ==
    \E kind \in {"builtin", "download", "zip"}, force_download \in BOOLEAN, d \in InitialDisks :
      \* the builtin directory ships with the code; a constructor that
      \* raises leaves no provider to call
      /\ kind = "builtin" => (d.dir /\ ~force_download)
      /\ disk = d
      /\ prov = MkProvider(kind, force_download, InitialLoaded(kind, force_download, d))
      /\ plast = PLast("init", "", ConstructorException(kind, force_download, d), "none",
                       FALSE, d, FALSE, FALSE, FALSE)
      /\ nops = 0
      /\ fs = EmptyFs
      /\ dicts = [i \in {} |-> EmptyDict]
      /\ cs = <<>>
      /\ opened = <<>>
      /\ log = <<>>
      /\ mw = NoWriter
      /\ wlast = WLast("none", NoExc, NoTopic, NoMsg)
      /\ accepted = [t \in WriterTopics |-> {}]
      /\ nwrites = 0

\* the constructor returned a provider
Constructed == ~(plast.op = "init" /\ plast.exc # NoExc)

\* provider.ensure_data_path(path)
PEnsureDataPath(path, net) ==
    /\ nops < MaxCalls
    /\ Constructed
    /\ LET r == ensure_data_path(prov, disk, path, net)
       IN  /\ disk' = r.d
           /\ prov' = r.p
           /\ plast' = PLast("ensure_data_path", path, r.exc, r.dl, FALSE, disk, prov.loaded,
                             plast.succeeded, plast.succeeded \/ (r.dl = "ok"))
    /\ nops' = nops + 1
    /\ UNCHANGED <<traceVars, writerVars>>

\* provider.download()
PDownload(net) ==
    /\ nops < MaxCalls
    /\ Constructed
    /\ prov.kind # "builtin"
    /\ LET r == provider_download(prov, disk, net)
       IN  /\ disk' = r.d
           /\ prov' = r.p
           /\ plast' = PLast("download", "", r.exc, net, FALSE, disk, prov.loaded,
                             plast.succeeded, plast.succeeded \/ (net = "ok"))
    /\ nops' = nops + 1
    /\ UNCHANGED <<traceVars, writerVars>>

\* provider.cleanup()
PCleanup(failed, kept) ==
    /\ nops < MaxCalls
    /\ Constructed
    /\ LET r == cleanup(prov, disk, failed, kept)
       IN  /\ disk' = r.d
           /\ plast' = PLast("cleanup", "", r.exc, "none", failed, disk, prov.loaded,
                             plast.succeeded, plast.succeeded)
    /\ prov' = prov
    /\ nops' = nops + 1
    /\ UNCHANGED <<traceVars, writerVars>>

ProviderNext ==
    \/ \E path \in RequestedPaths, net \in NetOutcomes : PEnsureDataPath(path, net)
    \/ \E net \in NetOutcomes : PDownload(net)
    \/ \E failed \in BOOLEAN, kept \in {{}, {FinalName, MemberName}} : PCleanup(failed, kept)

ProviderSpec == ProviderInit /\ [][ProviderNext]_vars

DownloadBacked == prov.kind \in {"download", "zip"}

\* C8: an ensure_data_path call of a download-backed provider downloads
\* only when it starts with loaded = false, never after a download has
\* succeeded (whatever force_download is), and when the requested path is
\* missing after its download it raises FileNotFoundError.
C8_DownloadOnlyWhenNotLoaded ==
    (DownloadBacked /\ plast.op = "ensure_data_path") =>
      /\ plast.dl # "none" => (~plast.preLoaded /\ ~plast.preSucceeded)
      /\ plast.preSucceeded => plast.dl = "none"
      /\ (plast.dl \in {"none", "ok"} /\ plast.path \notin DOMAIN disk.files)
           => plast.exc.type = "FileNotFoundError"

\* a download had succeeded, the directory was cleaned up, and the next
\* ensure_data_path of a provider built with force_download raised
\* FileNotFoundError without downloading again
C8_Witness ==
    /\ DownloadBacked
    /\ prov.force_download
    /\ plast.op = "ensure_data_path"
    /\ plast.preSucceeded
    /\ DOMAIN plast.pre.files = {}
    /\ plast.dl = "none"
    /\ plast.exc.type = "FileNotFoundError"

\* C9: cleanup() of a download-backed provider raises nothing, also when
\* the deletion fails, and after a deletion that succeeded the base
\* directory does not exist; cleanup() of the builtin provider leaves the
\* disk as it was.
C9_CleanupNeverRaises ==
    plast.op = "cleanup" =>
      /\ plast.exc = NoExc
      /\ (DownloadBacked /\ ~plast.failed) => ~disk.dir
      /\ prov.kind = "builtin" => disk = plast.pre

\* a directory holding files was deleted
C9_Witness ==
    /\ plast.op = "cleanup"
    /\ DownloadBacked
    /\ ~plast.failed
    /\ plast.pre.dir
    /\ DOMAIN plast.pre.files # {}
    /\ ~disk.dir

SameFinalFile(d1, d2) ==
    /\ (FinalName \in DOMAIN d1.files) = (FinalName \in DOMAIN d2.files)
    /\ FinalName \in DOMAIN d1.files => d1.files[FinalName] = d2.files[FinalName]

\* C10: when DownloadDataProvider.download() has run, successfully or not,
\* the temporary file does not exist; the final file never holds a partial
\* body; after a failure the final file and the loaded flag are what they
\* were; loaded turns true only together with the final file holding the
\* whole body.
C10_DownloadAtomic ==
    (prov.kind = "download" /\ plast.dl # "none") =>
      /\ TmpName \notin DOMAIN disk.files
      /\ FinalName \in DOMAIN disk.files => disk.files[FinalName] # "partial"
      /\ plast.op = "download" => ((plast.exc = NoExc) = (plast.dl = "ok"))
      /\ plast.dl # "ok" => (SameFinalFile(disk, plast.pre) /\ prov.loaded = plast.preLoaded)
      /\ plast.dl = "ok" => (prov.loaded /\ FinalName \in DOMAIN disk.files
                             /\ disk.files[FinalName] = "body")
      /\ (prov.loaded /\ ~plast.preLoaded) => plast.dl = "ok"

\* the transfer broke off in mid-stream over an earlier download and a
\* stale temporary file
C10_Witness ==
    /\ prov.kind = "download"
    /\ plast.op = "download"
    /\ plast.dl = "io_error"
    /\ TmpName \in DOMAIN plast.pre.files
    /\ FinalName \in DOMAIN plast.pre.files
    /\ TmpName \notin DOMAIN disk.files
    /\ disk.files[FinalName] = "old"
    /\ ~prov.loaded


\* --------------- specification ScenarioSpec: scenario generation (osi2osc)
MaxId == 2         \* the moving objects of a generated trace have ids 0..MaxId

ObjIds == 0..MaxId

SceneOsi == <<"scene", ".osi">>

ProvidedRear == <<-2, 1, -1>>   \* a bbcenter_to_rear the trace supplies

\* the sequences of one or two distinct ids: the first message's objects
FirstSeen ==
    {<<a>> : a \in ObjIds} \cup {pr \in ObjIds \X ObjIds : pr[1] # pr[2]}

\* A generated trace of n SensorView messages.  The first message lists the
\* objects of first, every later one all objects by ascending id.  Object sp
\* has vehicle type vt, the others are cars.  At its first observation
\* object sp carries vehicle attributes iff attrs, the others iff ~attrs;
\* later observations carry the opposite.
SceneObject(id, k, initial, sp, vt, attrs) ==
    MkObject(id, IF id = sp THEN vt ELSE CarType,
             IF initial = ((id = sp) = attrs) THEN ProvidedRear ELSE <<>>,
             10 * (id + 1), 2 * (id + 1), id + k, id)

SceneMessage(k, host, first, sp, vt, attrs) ==
    MkMsg("SensorView", k - 1, CurrentInterfaceVersion, host,
          IF k = 1
          THEN [i \in 1..Len(first) |-> SceneObject(first[i], k, TRUE, sp, vt, attrs)]
          ELSE [i \in 1..(MaxId + 1) |->
                  SceneObject(i - 1, k, k = 2 /\ ~InSeq(i - 1, first), sp, vt, attrs)])

Scene(n, host, first, sp, vt, attrs) ==
    [k \in 1..n |-> SceneMessage(k, host, first, sp, vt, attrs)]

SceneCallerSpecs == <<MkSpec(SceneOsi, "SensorView", NoTopic, 1)>>

ScenarioInit ==
    \E n \in 1..MaxLen, host \in ObjIds \cup {NoHost}, first \in FirstSeen,
       sp \in ObjIds, vt \in DOMAIN osi_vehicle_type_to_osc_category, attrs \in BOOLEAN :
      /\ fs = [p \in {SceneOsi} |->
                 MkFile("osi", Scene(n, host, first, sp, vt, attrs), <<>>, TRUE)]
      /\ dicts = [i \in 1..Len(SceneCallerSpecs) |-> EmptyDict]
      /\ cs = SceneCallerSpecs
      /\ opened = <<>>
      /\ log = <<>>
      /\ nops = 0
      /\ mw = NoWriter
      /\ wlast = WLast("none", NoExc, NoTopic, NoMsg)
      /\ accepted = [t \in WriterTopics |-> {}]
      /\ nwrites = 0
      /\ disk = {}
      /\ prov = 0
      /\ plast = 0

\* osi2osc(cs[1], OutXosc)
SOsi2osc ==
    /\ nops < 1
    /\ \E r \in {osi2osc(Now, cs[1], OutXosc)} :
        Apply("osi2osc", 1, 0, <<>>, Outcome(r.w, r.exc, r.ret, NoSpec))

\* parse_moving_objects(cs[1], host vehicle id of the first message)
SParse ==
    /\ nops < 1
    /\ \E r \in {parse_moving_objects(Now, cs[1], host_vehicle_id_value(fs[SceneOsi].msgs[1]))} :
        Apply("parse_moving_objects", 1, 0, <<>>, Outcome(r.w, r.exc, r.ret, NoSpec))

ScenarioNext == SOsi2osc \/ SParse

ScenarioSpec == ScenarioInit /\ [][ScenarioNext]_vars


\* the messages of the input trace of the last operation, the document
\* osi2osc wrote and the host vehicle id of the first message
SceneMsgs == Last.pre[Last.in.path].msgs
Document == fs[OutXosc].msgs[1]
SceneHost == SceneMsgs[1].host

\* the places <<message, position>> where an id is listed
SeenAt(id) ==
    {pl \in (1..Len(SceneMsgs)) \X (1..(MaxId + 1)) :
       pl[2] <= Len(SceneMsgs[pl[1]].pay) /\ SceneMsgs[pl[1]].pay[pl[2]].id = id}

Earlier(pa, pb) == pa[1] < pb[1] \/ (pa[1] = pb[1] /\ pa[2] < pb[2])

FirstSeenBefore(a, b) == \E pa \in SeenAt(a) : \A pb \in SeenAt(b) : Earlier(pa, pb)

IdsListed ==
    {id \in ObjIds : SeenAt(id) # {}}

EntityNames == [i \in 1..Len(Document.entities) |-> Document.entities[i].name]

\* the object id an entity of the document stands for
EntityId(name) == IF name = Ego THEN SceneHost ELSE name[2]

Generated == Did("osi2osc") /\ Last.exc = NoExc

\* C11: in a document generated from a trace whose first message names host
\* vehicle h, every object is one entity, the object with id h is the entity
\* 'Ego' and comes first, the other entities follow in the order in which
\* their objects are first seen in the trace, and the init actions and the
\* acts list the same entities in the same order.
C11_EgoFirstThenFirstSeen ==
    (Generated /\ SceneHost # NoHost) =>
      /\ Len(EntityNames) = Cardinality(IdsListed)
      /\ {EntityId(EntityNames[i]) : i \in 1..Len(EntityNames)} = IdsListed
      /\ \A i \in 1..Len(EntityNames) :
           /\ (EntityNames[i] = Ego) = (i = 1 /\ SceneHost \in IdsListed)
           /\ EntityNames[i] # Ego => EntityNames[i] = <<"osi_moving_object_", EntityId(EntityNames[i])>>
           /\ \A j \in (i + 1)..Len(EntityNames) :
                EntityNames[i] # Ego =>
                  FirstSeenBefore(EntityId(EntityNames[i]), EntityId(EntityNames[j]))
      /\ Document.init = EntityNames
      /\ [i \in 1..Len(Document.acts) |-> Document.acts[i].entityRef] = EntityNames

\* a document of three entities whose Ego is the object seen last
C11_Witness ==
    /\ Generated
    /\ SceneHost # NoHost
    /\ Len(EntityNames) = 3
    /\ EntityNames[1] = Ego
    /\ \A id \in IdsListed \ {SceneHost} : FirstSeenBefore(id, SceneHost)

\* the vehicle types the claim names as having no OpenSCENARIO category
C12_Unmapped == {0, 1, 8, 15, 16, 17}

C12_SomeUnmapped ==
    \E id \in IdsListed : \E pl \in SeenAt(id) :
      SceneMsgs[pl[1]].pay[pl[2]].vtype \in C12_Unmapped

\* C12: osi2osc on a readable trace returns exactly when every moving
\* object's vehicle type is one of 2..7 or 9..14; when some object has type
\* 0, 1, 8, 15, 16 or 17 it raises the 'missing mapping' AssertionError and
\* the output file is not written.
C12_CategoryCompleteness ==
    Did("osi2osc") =>
      /\ (Last.exc = NoExc) = ~C12_SomeUnmapped
      /\ Last.exc = NoExc =>
           \A id \in IdsListed : \A pl \in SeenAt(id) :
             SceneMsgs[pl[1]].pay[pl[2]].vtype \in (2..7) \cup (9..14)
      /\ C12_SomeUnmapped =>
           /\ Last.exc = Raise("AssertionError", "Missing OSI2OSC mapping for vehicle category.")
           /\ OutXosc \notin DOMAIN fs

\* generation fails on a trace whose object seen last has no category
C12_Witness ==
    /\ Did("osi2osc")
    /\ C12_SomeUnmapped
    /\ Last.exc.type = "AssertionError"
    /\ Len(SceneMsgs) >= 2
    /\ OutXosc \notin DOMAIN fs

\* the first observation of an object in the trace
C13_First(id) ==
    LET pl == CHOOSE pa \in SeenAt(id) : \A pb \in SeenAt(id) : pa = pb \/ Earlier(pa, pb)
    IN  SceneMsgs[pl[1]].pay[pl[2]]

\* the offset the claim states for an object
C13_Offset(mo) ==
    IF mo.rear # <<>> THEN mo.rear ELSE <<-((3 * mo.length) \div 10), 0, -(mo.height \div 2)>>

\* C13: in a generated document every entity's BoundingBox/Center and the
\* shift of its trajectory vertices use the bbcenter_to_rear of the object's
\* first observation when that observation has vehicle attributes, and the
\* default (-0.3 * length, 0, -0.5 * height) when it has none.
C13_RearAxleOffset ==
    Generated =>
      \A i \in 1..Len(EntityNames) :
        LET mo == C13_First(Document.entities[i].vehicle[2])
            off == C13_Offset(mo)
        IN  /\ Document.entities[i].center[1] = -off[1]
            /\ Document.entities[i].center[2] = -off[2]
            /\ Document.acts[i].vertices[1].x = mo.x + off[1]
            /\ Document.acts[i].vertices[1].y = mo.y + off[2]

\* C14: a document generated from a trace whose first message has no
\* host_vehicle_id has no entity 'Ego'; every entity is named
\* osi_moving_object_<id>.
C14_NoEgoWithoutHost ==
    (Generated /\ SceneHost = NoHost) =>
      /\ Len(EntityNames) = Cardinality(IdsListed)
      /\ \A i \in 1..Len(EntityNames) :
           /\ EntityNames[i] # Ego
           /\ EntityNames[i][1] = "osi_moving_object_"
           /\ EntityNames[i][2] \in IdsListed


\* ------------- specification MetricSpec: trajectory similarity of two traces
RefOsi == <<"reference", ".osi">>
ToolOsi == <<"tool", ".osi">>

ToolA == HostId + 1     \* the ids of the two objects of the tool trace
ToolB == HostId - 1

\* where a tool object starts, relative to the first position of the
\* reference object HostId
StartOffsets == {<<-1, 0>>, <<1, 0>>, <<0, 2>>, <<3, 0>>}

\* in which messages object ToolB is listed
Presence == {"all", "first", "later", "never"}

Listed(presence, k) ==
    \/ presence = "all"
    \/ presence = "first" /\ k = 1
    \/ presence = "later" /\ k > 1

ToolObject(id, off, k) ==
    MkObject(id, CarType, <<>>, 10, 2, HostId + off[1] + k, off[2])

\* the k-th message of the tool trace: object ToolA and, where listed,
\* object ToolB, in the order bFirst tells
ToolMessage(k, offA, offB, presence, bFirst) ==
    MkMsg("SensorView", k - 1, CurrentInterfaceVersion, NoHost,
          IF ~Listed(presence, k) THEN <<ToolObject(ToolA, offA, k)>>
          ELSE IF bFirst THEN <<ToolObject(ToolB, offB, k), ToolObject(ToolA, offA, k)>>
          ELSE <<ToolObject(ToolA, offA, k), ToolObject(ToolB, offB, k)>>)

MetricCallerSpecs ==
    <<MkSpec(RefOsi, "SensorView", NoTopic, 1), MkSpec(ToolOsi, "SensorView", NoTopic, 2)>>

MetricInit ==
    \E rn \in 1..MaxLen, tn \in 0..MaxLen, offA \in StartOffsets, offB \in StartOffsets,
       presence \in Presence, bFirst \in BOOLEAN :
      /\ fs = [p \in {RefOsi, ToolOsi} |->
                 IF p = RefOsi THEN MkFile("osi", Trace("SensorView", rn), <<>>, TRUE)
                 ELSE MkFile("osi", [k \in 1..tn |->
                                       ToolMessage(k, offA, offB, presence, bFirst)],
                             <<>>, TRUE)]
      /\ dicts = [i \in 1..Len(MetricCallerSpecs) |-> EmptyDict]
      /\ cs = MetricCallerSpecs
      /\ opened = <<>>
      /\ log = <<>>
      /\ nops = 0
      /\ mw = NoWriter
      /\ wlast = WLast("none", NoExc, NoTopic, NoMsg)
      /\ accepted = [t \in WriterTopics |-> {}]
      /\ nwrites = 0
      /\ disk = {}
      /\ prov = 0
      /\ plast = 0

\* the windows asked for: none, from the second message on, past the end
MetricWindows == {<<NoTime, NoTime>>, <<1, NoTime>>, <<MaxLen, MaxLen>>}

\* TrajectorySimilarityMetric(plot_path).compute(cs[1], cs[2], id, start, end, result_file)
MCompute(id, win, plot) ==
    /\ nops < 1
    /\ \E r \in {compute(Now, cs[1], cs[2], id, win[1], win[2], plot)} :
        Apply("compute", 1, 2, <<id, win, plot>>, Outcome(r.w, r.exc, r.ret, cs[2]))

\* ---- the call sites of TrajectorySimilarityMetric.compute ----
\* the parameters a keyword argument can bind to
InitParams == {"name", "plot_path"}
ComputeParams ==
    {"reference_channel_spec", "tool_channel_spec", "moving_object_id", "start_time",
     "end_time", "result_file"}
ComputeRequired == {"reference_channel_spec", "tool_channel_spec", "moving_object_id"}

\* binding keyword arguments to a signature without **kwargs: the TypeError
\* of the call, or none
BindKeywords(params, required, keywords) ==
    IF keywords \ params # {} THEN Raise("TypeError", "unexpected keyword argument")
    ELSE IF required \ keywords # {} THEN Raise("TypeError", "missing required argument")
    ELSE NoExc

\* a call site: the keywords given to the constructor and to compute, and
\* the number of names the result is unpacked into
MkSite(name, init, keywords, targets) ==
    [name |-> name, init |-> init, keywords |-> keywords, targets |-> targets]

DemoSite ==
    MkSite("demo", {"name", "plot_path"}, ComputeParams \cup {"time_tolerance"},
           <<"area", "cl", "mae">>)
ValidationSite ==
    MkSite("validation", {"name", "plot"}, ComputeRequired, <<"area", "cl", "mae", "report">>)
MainSite ==
    MkSite("main", {"name"},
           ComputeRequired \cup {"plot", "start_time", "end_time"}, <<"_", "_", "_">>)
\* the demo call with time_tolerance left out
PlainSite == MkSite("plain", {"name", "plot_path"}, ComputeParams, <<"area", "cl", "mae">>)

Sites == {DemoSite, ValidationSite, MainSite, PlainSite}

\* TrajectorySimilarityMetric(**init).compute(**keywords) unpacked into the
\* targets of the site
CallSite(w, site, reference_channel_spec, tool_channel_spec, moving_object_id, start_time, end_time) ==
    IF BindKeywords(InitParams, {}, site.init) # NoExc
    THEN Result(w, BindKeywords(InitParams, {}, site.init)) @@ [ret |-> NoMeasures]
    ELSE IF BindKeywords(ComputeParams, ComputeRequired, site.keywords) # NoExc
    THEN Result(w, BindKeywords(ComputeParams, ComputeRequired, site.keywords))
           @@ [ret |-> NoMeasures]
    ELSE Only({
      IF r.exc = NoExc /\ Len(site.targets) # Cardinality(DOMAIN r.ret)
      THEN Result(r.w, Raise("ValueError", "wrong number of values to unpack"))
             @@ [ret |-> NoMeasures]
      ELSE r
      : r \in {compute(w, reference_channel_spec, tool_channel_spec, moving_object_id,
                       IF "start_time" \in site.keywords THEN start_time ELSE NoTime,
                       IF "end_time" \in site.keywords THEN end_time ELSE NoTime,
                       "plot_path" \in site.init)}})

MCallSite(site, win) ==
    /\ nops < 1
    /\ \E r \in {CallSite(Now, site, cs[1], cs[2], HostId, win[1], win[2])} :
        Apply("call site", 1, 2, <<site, win>>, Outcome(r.w, r.exc, r.ret, cs[2]))

\* get_closest_trajectory(trajectory of HostId in cs[1], cs[2], start, end)
MClosest(win) ==
    /\ nops < 1
    /\ \E ref \in {get_trajectory_by_moving_object_id(Now, cs[1], HostId, win[1], win[2])} :
         \E r \in {get_closest_trajectory(ref.w, ref.ret, cs[2], win[1], win[2])} :
           Apply("get_closest_trajectory", 1, 2, <<HostId, win>>,
                 Outcome(r.w, r.exc, r.ret, cs[2]))

MetricNext ==
    \/ \E id \in {HostId, HostId + 2}, win \in MetricWindows, plot \in BOOLEAN :
         MCompute(id, win, plot)
    \/ \E win \in MetricWindows : MClosest(win)
    \/ \E site \in Sites, win \in MetricWindows : MCallSite(site, win)

MetricSpec == MetricInit /\ [][MetricNext]_vars

\* the samples of an object in the window of the last operation, as
\* <<timestamp, x, y>>, in trace order
InWindow(ts, win) ==
    (win[1] = NoTime \/ ts >= win[1]) /\ (win[2] = NoTime \/ ts <= win[2])

RECURSIVE Samples(_, _, _)
Samples(msgs, id, win) ==
    IF msgs = <<>> THEN <<>>
    ELSE (IF InWindow(Head(msgs).ts, win) /\ \E i \in 1..Len(Head(msgs).pay) : Head(msgs).pay[i].id = id
          THEN LET i == CHOOSE i \in 1..Len(Head(msgs).pay) : Head(msgs).pay[i].id = id
               IN  <<MkRow(Head(msgs).ts, Head(msgs).pay[i].x, Head(msgs).pay[i].y)>>
          ELSE <<>>)
           \o Samples(Tail(msgs), id, win)

RefSamples == Samples(Last.pre[RefOsi].msgs, Last.arg[1], Last.arg[2])
ToolSamples(id) == Samples(Last.pre[ToolOsi].msgs, id, Last.arg[2])

\* the tool objects with a sample in the window
Candidates == {id \in {ToolA, ToolB} : ToolSamples(id) # <<>>}

Distance2(id) ==
    (RefSamples[1].x - ToolSamples(id)[1].x) * (RefSamples[1].x - ToolSamples(id)[1].x)
      + (RefSamples[1].y - ToolSamples(id)[1].y) * (RefSamples[1].y - ToolSamples(id)[1].y)

\* object a is first seen in the tool trace before object b
ToolSeenBefore(a, b) ==
    LET msgs == Last.pre[ToolOsi].msgs
        at(id) == {<<k, i>> \in (1..Len(msgs)) \X (1..2) :
                     i <= Len(msgs[k].pay) /\ msgs[k].pay[i].id = id}
    IN  \E pa \in at(a) : \A pb \in at(b) : Earlier(pa, pb)

\* the candidate nearest to the reference's first sample, the first-seen
\* one among equally near ones
Nearest ==
    CHOOSE a \in Candidates :
      \A b \in Candidates \ {a} :
        \/ Distance2(a) < Distance2(b)
        \/ Distance2(a) = Distance2(b) /\ ToolSeenBefore(a, b)

C15_Invalid ==
    \/ Len(RefSamples) < 2
    \/ /\ Candidates # {}
       /\ \/ Len(ToolSamples(Nearest)) < 2
          \/ Len(ToolSamples(Nearest)) # Len(RefSamples)

\* C15: compute on an object of the reference trace raises ValueError, with
\* no measure computed and no report or plot written, whenever the reference
\* trajectory or the selected tool trajectory has fewer than 2 samples in the
\* window or the two have different numbers of samples.
C15_InputValidation ==
    (/\ Did("compute")
     /\ \E k \in 1..Len(Last.pre[RefOsi].msgs) :
          \E i \in 1..Len(Last.pre[RefOsi].msgs[k].pay) :
            Last.pre[RefOsi].msgs[k].pay[i].id = Last.arg[1]
     /\ C15_Invalid) =>
      /\ Last.exc.type = "ValueError"
      /\ Last.ret = NoMeasures
      /\ ReportTxt \notin DOMAIN fs
      /\ PlotPng \notin DOMAIN fs

\* C16: for a non-empty reference trajectory and a tool trace with an object
\* sampled in the window, get_closest_trajectory returns the windowed
\* trajectory of the tool object whose first sample is nearest to the
\* reference's first sample, the first-seen object among equally near ones.
C16_ClosestTrajectory ==
    (Did("get_closest_trajectory") /\ RefSamples # <<>> /\ Candidates # {}) =>
      /\ Last.exc = NoExc
      /\ Last.ret = <<MkTrajectory(Nearest, ToolSamples(Nearest))>>

\* ------------------------------------------------ simulation-tool adapters
\* (claims over TraceSpec)
IsRun == Did("ESMini.run") \/ Did("GTGen_Simulator.run")

\* the trace file the adapter asks its simulator to write
Intermediate ==
    IF Last.op = "ESMini.run" THEN esmini_gt_spec(Last.out).path
    ELSE gtgen_sv_spec(Last.out).path

\* the external process ran and returned, and its trace file is not there
C17_Missing ==
    /\ IsRun
    /\ Last.started
    /\ Last.arg = <<FALSE>>
    /\ Intermediate \notin DOMAIN Last.pre

OutputUntouched ==
    IF Last.out.path \in DOMAIN Last.pre
    THEN Last.out.path \in DOMAIN fs /\ fs[Last.out.path] = Last.pre[Last.out.path]
    ELSE Last.out.path \notin DOMAIN fs

\* C17: in both adapters, when the external process has returned and the
\* intermediate trace file does not exist, run raises RuntimeError and no
\* trace is created at the requested output path.
C17_MissingIntermediateIsFatal ==
    C17_Missing => Last.exc # NoExc /\ Last.exc.type = "RuntimeError" /\ OutputUntouched

\* the part of C17 that concerns ESMini.run alone
C17_ESMiniOnly ==
    (C17_Missing /\ Last.op = "ESMini.run")
        => Last.exc # NoExc /\ Last.exc.type = "RuntimeError" /\ OutputUntouched

\* the message types an adapter accepts
AdapterAllowed ==
    IF Last.op = "ESMini.run" THEN {"GroundTruth", "SensorView"} ELSE {"SensorView"}

C18_Disallowed ==
    /\ IsRun
    /\ Last.out.message_type # NoneType
    /\ Last.out.message_type \notin AdapterAllowed

\* C18: in both adapters a requested message type outside the allowed set
\* (ESMini: GroundTruth or SensorView; GTGen_Simulator: SensorView) makes run
\* raise InvalidSpecificationError before the external process is started
\* and with no file created or renamed; an absent message type passes the
\* check, so the process is started.
C18_ValidationPrecedesExecution ==
    /\ C18_Disallowed =>
          /\ Last.exc # NoExc /\ Last.exc.type = "InvalidSpecificationError"
          /\ ~Last.started
          /\ fs = Last.pre
    /\ (IsRun /\ Last.out.message_type = NoneType) =>
          /\ Last.started
          /\ ~(Last.exc # NoExc /\ Last.exc.type = "InvalidSpecificationError")

\* GTGen_Simulator.run asked for a GroundTruth trace, which only ESMini
\* accepts, with a simulator that would have written its trace
C18_Witness ==
    /\ C18_Disallowed
    /\ Last.op = "GTGen_Simulator.run"
    /\ Last.out.message_type = "GroundTruth"
    /\ Last.arg = <<TRUE>>
    /\ Last.exc # NoExc

\* ===================================================================
\* BuilderSpec: one channel specification, the validator and the builders
\* ===================================================================
ASpecPaths == {<<"a", ".osi">>, <<"a", ".mcap">>, <<"a", ".osi", ".xz">>, <<"a">>}
ASpecTypes == {NoneType, "GroundTruth", "SensorData"}
ASpecTopics == {NoTopic, <<"t">>}
MovedPath == <<"moved", ".osi">>

\* metadata dict 1 is empty, dict 2 holds the key "k1"
BuilderDicts == <<EmptyDict, DictSet(EmptyDict, "k1", "v")>>

BuilderInit ==
    \E p \in ASpecPaths, mt \in ASpecTypes, t \in ASpecTopics,
       md \in {NoDict} \cup DOMAIN BuilderDicts, present \in BOOLEAN :
      /\ fs = [x \in (IF present THEN {p} ELSE {}) |-> MkFile("osi", <<>>, <<>>, TRUE)]
      /\ dicts = BuilderDicts
      /\ cs = <<MkSpec(p, mt, t, md)>>
      /\ opened = <<>>
      /\ log = <<>>
      /\ nops = 0
      /\ mw = NoWriter
      /\ wlast = WLast("none", NoExc, NoTopic, NoMsg)
      /\ accepted = [x \in WriterTopics |-> {}]
      /\ nwrites = 0
      /\ disk = {}
      /\ prov = 0
      /\ plast = 0

Validators ==
    {MkValidator(a, rmt, rt, keys) :
       a \in {<<>>, <<{}>>, <<{"GroundTruth"}>>, <<{"GroundTruth", "SensorView"}>>},
       rmt \in BOOLEAN, rt \in BOOLEAN, keys \in {{}, {"k1"}, {"k1", "k2"}}}

\* one call on cs[1]; only the last call is recorded
ApplyLast(op, arg, r) ==
    /\ fs' = r.w.fs
    /\ dicts' = r.w.dicts
    /\ opened' = r.w.opened
    /\ cs' = [cs EXCEPT ![1] = r.spec]
    /\ log' = <<LogRecord(op, 0, 1, arg, r)>>
    /\ nops' = nops + 1
    /\ UNCHANGED <<writerVars, provVars>>

\* v(cs[1]) for a validator v
BValidate(v) ==
    /\ nops < MaxOps
    /\ ApplyLast("OSIChannelSpecValidator", v,
                 Outcome(Now, OSIChannelSpecValidator(v, dicts, cs[1]), NoSpec, cs[1]))

BWithName(new_name) ==
    /\ nops < MaxOps
    /\ ApplyLast("with_name", new_name, Outcome(Now, NoExc, with_name(cs[1], new_name), cs[1]))

BWithNameSuffix(suffix) ==
    /\ nops < MaxOps
    /\ ApplyLast("with_name_suffix", suffix,
                 Outcome(Now, NoExc, with_name_suffix(cs[1], suffix), cs[1]))

BWithTraceFileFormat(fmt) ==
    /\ nops < MaxOps
    /\ ApplyLast("with_trace_file_format", fmt,
                 Outcome(Now, NoExc, with_trace_file_format(cs[1], fmt), cs[1]))

BWithMessageType(mt) ==
    /\ nops < MaxOps
    /\ ApplyLast("with_message_type", mt,
                 Outcome(Now, NoExc, with_message_type(cs[1], mt), cs[1]))

BWithTopic(t) ==
    /\ nops < MaxOps
    /\ ApplyLast("with_topic", t, Outcome(Now, NoExc, with_topic(cs[1], t), cs[1]))

\* cs[1].rename_to(MovedPath); the receiver stays as it is
BRenameTo ==
    /\ nops < MaxOps
    /\ \E r \in {rename_to(Now, cs[1], MovedPath)} :
        ApplyLast("rename_to", MovedPath, Outcome(r.w, r.exc, r.spec, cs[1]))

BuilderNext ==
    \/ \E v \in Validators : BValidate(v)
    \/ BWithName(<<"b", ".mcap">>)
    \/ BWithNameSuffix("_x")
    \/ \E fmt \in {SINGLE_CHANNEL, MULTI_CHANNEL} : BWithTraceFileFormat(fmt)
    \/ \E mt \in {"SensorView", NoneType} : BWithMessageType(mt)
    \/ BWithTopic(<<"u">>)
    \/ BRenameTo

BuilderSpec == BuilderInit /\ [][BuilderNext]_vars

\* the keys of the metadata of a specification; None holds no key
MetadataKeys(s) == IF s.metadata = NoDict THEN {} ELSE DOMAIN dicts[s.metadata]

\* the condition under which the validator is said to reject
C19_Rejects(v, s) ==
    \/ /\ v.allowed_message_types # <<>>
       /\ s.message_type # NoneType
       /\ s.message_type \notin v.allowed_message_types[1]
    \/ v.require_message_type /\ s.message_type = NoneType
    \/ v.require_topic /\ s.topic = NoTopic
    \/ \E key \in v.require_metadata_keys : key \notin MetadataKeys(s)

\* C19: the validator raises InvalidSpecificationError exactly when the
\* allowed types are set and the present message type is not one of them, or
\* a required message type or topic is absent, or a required metadata key
\* is missing; otherwise it returns normally and leaves the specification
\* unchanged.
C19_ValidatorExact ==
    Did("OSIChannelSpecValidator") =>
      IF C19_Rejects(Last.arg, Last.out)
      THEN Last.exc # NoExc /\ Last.exc.type = "InvalidSpecificationError"
      ELSE Last.exc = NoExc /\ cs[1] = Last.out

\* the same for specifications whose metadata is a dict and validators
\* whose allowed_message_types is None or a non-empty list
C19_ValidatorExactOnDicts ==
    (/\ Did("OSIChannelSpecValidator")
     /\ Last.out.metadata # NoDict
     /\ Last.arg.allowed_message_types # <<{}>>) =>
      IF C19_Rejects(Last.arg, Last.out)
      THEN Last.exc # NoExc /\ Last.exc.type = "InvalidSpecificationError"
      ELSE Last.exc = NoExc /\ cs[1] = Last.out

Builders ==
    {"with_name", "with_name_suffix", "with_trace_file_format", "with_message_type",
     "with_topic"}

\* the specifications a and b agree on every field but the path
SameButPath(a, b) ==
    a.message_type = b.message_type /\ a.topic = b.topic /\ a.metadata = b.metadata

\* the sequence p without its k-th element
Without(p, k) == SubSeq(p, 1, k - 1) \o SubSeq(p, k + 1, Len(p))

\* q is p with the token sfx put in before the extension of p, or at the
\* end when p has no extension
InsertedBeforeExtension(p, q, sfx) ==
    LET k == IF Suffix(p) = "" THEN Len(q) ELSE Len(q) - 1
    IN  Len(q) = Len(p) + 1 /\ q[k] = sfx /\ Without(q, k) = p

\* C20: with_name, with_name_suffix, with_trace_file_format, with_message_type
\* and with_topic return a specification that differs from the receiver only
\* in the targeted field (the suffix goes in before the extension, the new
\* path has the requested trace file format), leave the receiver as it was
\* and touch no file; only rename_to changes the files, moving the
\* receiver's file to the new path.
C20_BuilderPurity ==
    Len(log) > 0 =>
      /\ Last.op \in Builders =>
            /\ Last.exc = NoExc
            /\ cs[1] = Last.out
            /\ fs = Last.pre
      /\ Last.op = "with_name" =>
            Last.ret.path = Last.arg /\ SameButPath(Last.ret, Last.out)
      /\ Last.op = "with_name_suffix" =>
            /\ InsertedBeforeExtension(Last.out.path, Last.ret.path, Last.arg)
            /\ SameButPath(Last.ret, Last.out)
      /\ Last.op = "with_trace_file_format" =>
            /\ trace_file_format(Last.ret) = Last.arg
            /\ Stem(Last.ret.path) = Stem(Last.out.path)
            /\ SameButPath(Last.ret, Last.out)
      /\ Last.op = "with_message_type" =>
            Last.ret = [Last.out EXCEPT !.message_type = Last.arg]
      /\ Last.op = "with_topic" =>
            Last.ret = [Last.out EXCEPT !.topic = Last.arg]
      /\ fs # Last.pre => Last.op = "rename_to"
      /\ (Last.op = "rename_to" /\ Last.exc = NoExc) =>
            /\ Last.out.path \in DOMAIN Last.pre
            /\ Last.out.path \notin DOMAIN fs
            /\ fs[MovedPath] = Last.pre[Last.out.path]
            /\ cs[1] = Last.out

\* a suffix put into the name of a compressed trace whose file exists, and
\* a change of format on a receiver of the other format
C20_Witness ==
    \/ /\ Did("with_name_suffix")
       /\ Last.out.path = <<"a", ".osi", ".xz">>
       /\ Last.ret.path = <<"a", ".osi", "_x", ".xz">>
       /\ Last.out.path \in DOMAIN fs
    \/ /\ Did("with_trace_file_format")
       /\ trace_file_format(Last.out) = SINGLE_CHANNEL
       /\ Last.arg = MULTI_CHANNEL
       /\ Last.out.path \in DOMAIN fs

\* ------------------------------------------------ single-channel writer
\* (claim over TraceSpec)
\* the file name p ends in the extension tokens e
EndsIn(p, e) == Len(p) > Len(e) /\ SubSeq(p, Len(p) - Len(e) + 1, Len(p)) = e

C21_Accepted ==
    \/ Last.arg = <<FALSE>> /\ EndsIn(Last.out.path, <<".osi">>)
    \/ Last.arg = <<TRUE>> /\ EndsIn(Last.out.path, <<".osi", ".xz">>)

\* C21: constructing OSITraceWriterSingle succeeds exactly when compress is
\* false and the path ends in .osi, or compress is true and the path ends
\* in .osi.xz; otherwise it raises ValueError and creates no file.
C21_ExtensionCheck ==
    Did("OSITraceWriterSingle") =>
      IF C21_Accepted
      THEN Last.exc = NoExc /\ Last.out.path \in DOMAIN fs
      ELSE Last.exc # NoExc /\ Last.exc.type = "ValueError" /\ fs = Last.pre

\* the same without compression
C21_Uncompressed ==
    (Did("OSITraceWriterSingle") /\ Last.arg = <<FALSE>>) =>
      IF C21_Accepted
      THEN Last.exc = NoExc /\ Last.out.path \in DOMAIN fs
      ELSE Last.exc # NoExc /\ Last.exc.type = "ValueError" /\ fs = Last.pre

\* --------------------- specification StripSpec: the SensorView stripper
\* The fields of global_ground_truth that strip can clear, and one it never
\* touches.  A field holds a sequence of entries; a cleared field holds none.
Switches ==
    {"lane_boundary", "reference_line", "logical_lane", "logical_lane_boundary",
     "lane", "environmental_conditions"}
GroundTruthFields == Switches \cup {"moving_object"}

MkSensorView(ts, full) ==
    [ts |-> ts,
     global_ground_truth |->
       [f \in GroundTruthFields |->
          IF full \/ f \in {"lane", "moving_object"} THEN <<ts + 1>> ELSE <<>>]]

\* message.global_ground_truth.ClearField(f) for every enabled switch f
ClearFields(message, flags) ==
    [message EXCEPT !.global_ground_truth =
       [f \in GroundTruthFields |-> IF f \in flags THEN <<>> ELSE @[f]]]

\* strip(sv_in, sv_out, args): the output is opened for appending
strip(w, sv_in, sv_out, flags) ==
    IF sv_in \notin DOMAIN w.fs
    THEN Result(w, Raise("FileNotFoundError", "input trace does not exist"))
    ELSE LET old == IF sv_out \in DOMAIN w.fs THEN w.fs[sv_out].msgs ELSE <<>>
             new == [k \in 1..Len(w.fs[sv_in].msgs) |-> ClearFields(w.fs[sv_in].msgs[k], flags)]
         IN  Result([w EXCEPT !.fs = FsPut(@, sv_out, MkFile("osi", old \o new, <<>>, TRUE))],
                    NoExc)

StripIn == <<"sv_in", ".osi">>
StripOut == <<"sv_out", ".osi">>

\* what is at the output path at the start: nothing, an empty file, or a
\* trace left by an earlier run
StripOutputs == {"absent", "empty", "trace"}

StripInit ==
    \E n \in 0..MaxLen, full \in BOOLEAN, present \in BOOLEAN, out \in StripOutputs :
      /\ fs = [p \in (IF present THEN {StripIn} ELSE {})
                       \cup (IF out = "absent" THEN {} ELSE {StripOut}) |->
                 IF p = StripIn
                 THEN MkFile("osi", [k \in 1..n |-> MkSensorView(k - 1, full \/ k = 1)],
                             <<>>, TRUE)
                 ELSE MkFile("osi", IF out = "trace" THEN <<MkSensorView(0, TRUE)>> ELSE <<>>,
                             <<>>, TRUE)]
      /\ dicts = <<>>
      /\ cs = <<>>
      /\ opened = <<>>
      /\ log = <<>>
      /\ nops = 0
      /\ mw = NoWriter
      /\ wlast = WLast("none", NoExc, NoTopic, NoMsg)
      /\ accepted = [t \in WriterTopics |-> {}]
      /\ nwrites = 0
      /\ disk = {}
      /\ prov = 0
      /\ plast = 0

\* strip(StripIn, StripOut, args) with the switches in flags enabled
SStrip(flags) ==
    /\ nops < 1
    /\ \E r \in {strip(Now, StripIn, StripOut, flags)} :
        Apply("strip", 0, 0, flags, Outcome(r.w, r.exc, <<>>, NoSpec))

StripNext == \E flags \in SUBSET Switches : SStrip(flags)

StripSpec == StripInit /\ [][StripNext]_vars

\* the message expected for an input message: enabled fields empty, every
\* other field as in the input
C22_Expected(message, flags) ==
    [ts |-> message.ts,
     global_ground_truth |->
       [f \in GroundTruthFields |->
          IF f \in flags THEN <<>> ELSE message.global_ground_truth[f]]]

C22_OutputIsStrippedInput ==
    LET input == Last.pre[StripIn].msgs
    IN  /\ Last.exc = NoExc
        /\ StripOut \in DOMAIN fs
        /\ fs[StripOut].msgs = [k \in 1..Len(input) |-> C22_Expected(input[k], Last.arg)]

\* C22: after strip(input, output, flags), whether or not the output path
\* existed before, the output trace holds exactly one message per input
\* message, in input order, with every enabled field empty and every other
\* field as in the input message.
C22_StripExact ==
    (Did("strip") /\ StripIn \in DOMAIN Last.pre) => C22_OutputIsStrippedInput

\* the same when the output path held no message before
C22_StripExactOnFreshOutput ==
    (/\ Did("strip") /\ StripIn \in DOMAIN Last.pre
     /\ (StripOut \in DOMAIN Last.pre => Last.pre[StripOut].msgs = <<>>))
      => C22_OutputIsStrippedInput

\* --------------------------------------- call sites of compute (MetricSpec)
\* C23: compute, as the validation and demo tests call it, accepts their
\* keyword arguments (time_tolerance among them) without raising on the
\* argument list and returns exactly the triple (area, curve_length, mae),
\* which the call site unpacks.
C23_CallSitesAccepted ==
    (Did("call site") /\ Last.arg[1] \in {DemoSite, ValidationSite}) =>
      /\ ~(Last.exc # NoExc /\ Last.exc.type = "TypeError")
      /\ ~(Last.exc # NoExc /\ Last.exc.msg = "wrong number of values to unpack")
      /\ Last.exc = NoExc => DOMAIN Last.ret = {"area", "cl", "mae"}

\* a call that gives compute only its own parameters and unpacks three
\* values never fails on the argument list or on unpacking
C23_PlainCallAccepted ==
    (Did("call site") /\ Last.arg[1] = PlainSite) =>
      /\ ~(Last.exc # NoExc /\ Last.exc.type = "TypeError")
      /\ ~(Last.exc # NoExc /\ Last.exc.msg = "wrong number of values to unpack")
      /\ Last.exc = NoExc => Last.ret = [area |-> TRUE, cl |-> TRUE, mae |-> TRUE]

\* ------------------------------ ESMini.run without a requested message type
\* (claim over TraceSpec)
C24_Unspecified ==
    /\ Did("ESMini.run")
    /\ Last.out.message_type = NoneType
    /\ Last.arg = <<TRUE>>
    /\ trace_file_format(Last.out) # UnsupportedFormat
    /\ Last.out.path \notin DOMAIN Last.pre

\* C24: ESMini.run with no requested message type, for a single-channel and
\* for a multi-channel output path, when the tool produced its ground-truth
\* trace: run returns a specification of a SensorView trace at the
\* requested path, holding the wrapped messages.
C24_WrapsWhenUnspecified ==
    C24_Unspecified =>
      /\ Last.exc = NoExc
      /\ Last.ret.path = Last.out.path
      /\ Last.ret.message_type = "SensorView"
      /\ Last.out.path \in DOMAIN fs

\* ----------------------------------- topics of one multi-channel writer
\* (claim over WriterSpec)
RegisteredChannels == fs[OutMcap].chans

\* C25: after any sequence of add_osi_channel calls on one writer every
\* registered topic belongs to exactly one channel: a call whose final
\* topic, explicit or auto-filled from the file name, is already registered
\* registers nothing.
C25_TopicUniqueness ==
    \A i, j \in 1..Len(RegisteredChannels) :
       RegisteredChannels[i].topic = RegisteredChannels[j].topic => i = j

\* the same for the calls that name their topic
C25_ExplicitTopicsUnique ==
    \A i, j \in 1..Len(RegisteredChannels) :
       (/\ RegisteredChannels[i].topic = RegisteredChannels[j].topic
        /\ cs[3].topic = NoTopic) => i = j

\* ------------------------------------------- the trace GTGen_Simulator.run
\* returns (claim over TraceSpec)
\* the messages of the trace at path p: of the file, or of its first channel
MessagesAt(p) ==
    IF fs[p].kind = "osi" THEN fs[p].msgs
    ELSE IF fs[p].chans = <<>> THEN <<>> ELSE fs[p].chans[1].msgs

C26_Produced ==
    /\ Did("GTGen_Simulator.run")
    /\ Last.arg = <<TRUE>>
    /\ Last.out.message_type = "SensorView"
    /\ trace_file_format(Last.out) # UnsupportedFormat
    /\ Last.out.path \notin DOMAIN Last.pre

\* C26: GTGen_Simulator.run streams the trace the tool produced into the
\* requested specification: the returned trace holds the produced messages
\* in their order, none dropped and none altered, for a single-channel and
\* for a multi-channel request.
C26_StreamsUnaltered ==
    C26_Produced =>
      /\ Last.exc = NoExc
      /\ Last.ret.path \in DOMAIN fs
      /\ MessagesAt(Last.ret.path) = GTGenTrace

\* what the multi-channel request gets: the produced messages from second 1
\* on, their moving objects renumbered
C26_MultiChannelResult ==
    (C26_Produced /\ trace_file_format(Last.out) = MULTI_CHANNEL /\ nops = 1) =>
      /\ Last.exc = NoExc
      /\ MessagesAt(Last.ret.path) = SelectWindow(Renumbered(GTGenTrace), CropStart, NoTime)

\* ------------------------------------------------------------ channel info
\* (claim over TraceSpec)
\* the messages of the channel the reader of Last.in is bound to
C27_Messages ==
    IF Last.pre[Last.in.path].kind = "osi" THEN Last.pre[Last.in.path].msgs
    ELSE TopicMessages(Last.pre[Last.in.path].chans, Last.in.topic)

C27_Readable ==
    /\ Did("get_channel_info")
    /\ Last.in.path \in DOMAIN Last.pre
    /\ Last.in \in {TraceCallerSpecs[1], TraceCallerSpecs[4]}

\* the summary said to be returned for the messages m
C27_SummaryOf(m, info) ==
    /\ info.total_steps = Len(m)
    /\ info.start = (IF m = <<>> THEN <<>> ELSE <<m[1].ts>>)
    /\ info.stop = (IF m = <<>> THEN <<>> ELSE <<m[Len(m)].ts>>)
    /\ IF Len(m) < 2 THEN info.step_size_avg[1] = 0
       ELSE info.step_size_avg[1] * (Len(m) - 1)
              = (m[Len(m)].ts - m[1].ts) * info.step_size_avg[2]

\* C27: for every channel with n messages, n = 0 and n = 1 included,
\* get_channel_info returns start = first timestamp, stop = last timestamp,
\* total_steps = n and step_size_avg = the mean of the n - 1 timestamp
\* differences (0 when n < 2); a repeated call returns an equal result.
C27_ChannelInfo ==
    C27_Readable =>
      /\ Last.exc = NoExc
      /\ C27_SummaryOf(C27_Messages, Last.ret[1])
      /\ Last.ret[2] = Last.ret[1]

\* the same for channels that hold a message
C27_ChannelInfoNonEmpty ==
    (C27_Readable /\ C27_Messages # <<>>) =>
      /\ Last.exc = NoExc
      /\ C27_SummaryOf(C27_Messages, Last.ret[1])
      /\ Last.ret[2] = Last.ret[1]

\* ------------------------------------------ provider construction and the
\* loaded flag (claims over ProviderSpec)
\* C28: constructing a DownloadZIPDataProvider with force_download = false
\* completes without error and sets loaded exactly when the base directory
\* exists and is non-empty (false when it is empty or missing); with
\* force_download = true loaded starts false.
C28_ZipConstruction ==
    (plast.op = "init" /\ prov.kind = "zip") =>
      /\ plast.exc = NoExc
      /\ prov.loaded = (~prov.force_download /\ disk.dir /\ DOMAIN disk.files # {})

\* the same when the base directory exists
C28_ZipConstructionInDirectory ==
    (plast.op = "init" /\ prov.kind = "zip" /\ disk.dir) =>
      /\ plast.exc = NoExc
      /\ prov.loaded = (~prov.force_download /\ DOMAIN disk.files # {})

\* the downloaded resource of the provider is under its base directory
ResourceOnDisk ==
    /\ disk.dir
    /\ IF prov.kind = "zip" THEN DOMAIN disk.files # {} ELSE FinalName \in DOMAIN disk.files

\* C30: for a download-backed provider, in every state reached by
\* ensure_data_path, download and cleanup calls, loaded = true implies that
\* the downloaded resource exists under base_path, so that an
\* ensure_data_path after cleanup downloads again.
C30_LoadedImpliesOnDisk ==
    (prov.kind \in {"download", "zip"} /\ Constructed /\ prov.loaded) => ResourceOnDisk

\* the same as long as cleanup has not been called
C30_LoadedUntilCleanup ==
    [][(prov.kind \in {"download", "zip"} /\ Constructed /\ prov.loaded /\ ResourceOnDisk
        /\ plast'.op # "cleanup") => (prov'.loaded /\ ResourceOnDisk')]_vars

\* ------------------------------- the caller's specification after writing
\* (claim over TraceSpec)
\* convert as the first operation: a writer made from the caller's
\* multi-channel specification, the input's messages written, the writer
\* closed
C29_Written ==
    /\ Did("convert")
    /\ nops = 1
    /\ Last.exc = NoExc
    /\ trace_file_format(Last.out) = MULTI_CHANNEL

\* C29: after OSIChannelWriter.from_osi_channel_specification(S) for a
\* multi-channel S and any sequence of write calls the caller's S still has
\* the topic and the metadata entries it had before; the versions the
\* writer records lazily are in the writer's own channel metadata only.
C29_CallerSpecUntouched ==
    C29_Written =>
      \A j \in 1..Len(cs) :
         TraceCallerSpecs[j] = Last.out =>
           /\ cs[j] = TraceCallerSpecs[j]
           /\ dicts[cs[j].metadata] = EmptyDict

\* what does stay: the path and the message type, and every metadata entry
\* but the two version keys
C29_PathAndTypeUntouched ==
    C29_Written =>
      \A j \in 1..Len(cs) :
         TraceCallerSpecs[j] = Last.out =>
           /\ cs[j].path = Last.out.path
           /\ cs[j].message_type = Last.out.message_type
           /\ cs[j].metadata = Last.out.metadata
           /\ DOMAIN dicts[cs[j].metadata] \subseteq {OsiVersionKey, ProtobufVersionKey}

=============================================================================
